---- MODULE Spec2Model ----
(***************************************************************************)
(* Model of the node clustering engine of the cycling-node map server      *)
(* (getDistance, getClusterDistance, calculateZoomFromBounds, clusterNodes, *)
(* clusterNodesForBounds) and of the zoom handling of the clustered route.  *)
(*                                                                          *)
(* Units.  Coordinates are integers in millidegrees (52.001 deg = 52001).   *)
(* Distances are integers in metres, radii are in km as in the source.      *)
(* A JavaScript number that may be NaN (the parsed zoom) is a record        *)
(* [nan, val]; a value that may be null/undefined is a sequence of length   *)
(* 0 (null) or 1 (the value).  A centroid, which the source computes as     *)
(* sum / length in floating point, is kept as the exact fraction            *)
(* [num, den].                                                              *)
(***************************************************************************)
EXTENDS Integers, Sequences, FiniteSets, TLC

\* ---------------------------------------------------------------- bounds
\* Longest node list handed to clusterNodes.
MaxNodes == 3
\* Largest zoom the radius policy is applied to.
MaxZoom == 14

\* Largest number of clock steps taken during a run.
MaxTicks == 2
\* Number of grid chunks a download run goes through.
MaxChunks == 2
\* Number of requests received while requests are served side by side.
MaxRequests == 3

\* ------------------------------------------------------- value encodings
Null == <<>>
Some(x) == <<x>>
Num(n) == [nan |-> FALSE, val |-> n]
NaN == [nan |-> TRUE, val |-> 0]
\* a >= b on JavaScript numbers: false as soon as one side is NaN
Geq(a, b) == ~a.nan /\ ~b.nan /\ a.val >= b.val
Rat(n, d) == [num |-> n, den |-> d]
\* square millidegrees in one square degree
SqUnit == 1000 * 1000
Abs(x) == IF x < 0 THEN -x ELSE x

\* ------------------------------------------------------------ getDistance
\* Earth's radius in km
R == 6371

\* degrees -> radians (x * Math.PI / 180), millidegrees to microradians
ToMicroRad(mdeg) == (Abs(mdeg) * 17453) \div 1000

\* Math.sin of a small angle h (microradians), in units of 1e-6:
\* h - h^3/6, the next term is below the unit for |h| < 0.05 rad
SinMicro(h) == h - (((h * h) \div 1000000) * h) \div 6000000

\* Math.cos(lat * Math.PI / 180) in units of 1e-4, by the cosine series
CosLat(mdeg) ==
    LET x  == (Abs(mdeg) * 17453) \div 100000
        x2 == (x * x) \div 10000
        x4 == (x2 * x2) \div 10000
        x6 == (x4 * x2) \div 10000
        x8 == (x4 * x4) \div 10000
    IN  10000 - (x2 \div 2) + (x4 \div 24) - (x6 \div 720) + (x8 \div 40320)

IsqrtBetween[n \in Nat, lo \in Nat, hi \in Int] ==
    IF lo >= hi THEN lo
    ELSE LET mid == (lo + hi + 1) \div 2
         IN  IF mid * mid <= n THEN IsqrtBetween[n, mid, hi]
                               ELSE IsqrtBetween[n, lo, mid - 1]

\* Math.sqrt on a value in units of 1e-12, result in units of 1e-6
Sqrt(n) == IsqrtBetween[n, 0, 46340]

\* 2 * Math.atan2(Math.sqrt(a), Math.sqrt(1-a)) = 2 * asin(sqrt(a)) for
\* 0 <= a <= 1; asin(r) = r + r^3/6 for small r.  Result in microradians.
AngleOf(a) ==
    LET r == Sqrt(a)
    IN  2 * (r + (((r * r) \div 1000000) * r) \div 6000000)

\* Haversine distance in metres between two points given in millidegrees.
\* Fixed-point rendering of the source's formula; within 40 m of the
\* floating-point value for points between 50 and 54 degrees north that are
\* at most 1.5 degrees apart in each coordinate (the node universe below).
getDistance(lat1, lng1, lat2, lng2) ==
    LET sLat == SinMicro(ToMicroRad(lat2 - lat1) \div 2)
        sLng == SinMicro(ToMicroRad(lng2 - lng1) \div 2)
        cc   == (CosLat(lat1) * CosLat(lat2)) \div 10000
        a    == sLat * sLat + ((cc * sLng) \div 10000) * sLng
        c    == AngleOf(a)
    IN  (R * c) \div 1000

\* ----------------------------------------------------- getClusterDistance
zoomDistances ==
    (0 :> 100) @@ (3 :> 75) @@ (5 :> 50) @@ (7 :> 30) @@ (9 :> 15) @@ (10 :> 10)

\* for (let z = 10; z >= 0; z--) if (zoom >= z && zoomDistances[z] !== undefined)
RECURSIVE ScanZoomDistances(_, _)
ScanZoomDistances(zoom, z) ==
    IF z < 0 THEN 50
    ELSE IF Geq(zoom, Num(z)) /\ z \in DOMAIN zoomDistances
         THEN zoomDistances[z]
         ELSE ScanZoomDistances(zoom, z - 1)

\* Faulty variant: the detail threshold is off by one (zoom > 11).
getClusterDistanceLateDetail(zoom) ==
    IF Geq(zoom, Num(12)) THEN 0 ELSE ScanZoomDistances(zoom, 10)

\* Faulty variant: the table is read at the zoom itself, with the fallback for a
\* zoom that is no key (zoomDistances[zoom] ?? 50).
getClusterDistanceDirectLookup(zoom) ==
    IF Geq(zoom, Num(11)) THEN 0
    ELSE IF ~zoom.nan /\ zoom.val \in DOMAIN zoomDistances THEN zoomDistances[zoom.val]
    ELSE 50

\* Faulty variant: the table is scanned upwards (z = 0 .. 10), so key 0 always wins.
getClusterDistanceAscending(zoom) ==
    IF Geq(zoom, Num(11)) THEN 0
    ELSE IF Geq(zoom, Num(0)) THEN zoomDistances[0] ELSE 50

\* Faulty variant: a zoom below the keys is taken for zoom 0.
getClusterDistanceClampsLow(zoom) ==
    IF Geq(zoom, Num(11)) THEN 0
    ELSE IF Geq(zoom, Num(0)) THEN ScanZoomDistances(zoom, 10)
    ELSE zoomDistances[0]

getClusterDistance(zoom) ==
    IF Geq(zoom, Num(11)) THEN 0 ELSE ScanZoomDistances(zoom, 10)

\* ------------------------------------------------ calculateZoomFromBounds
\* Faulty variant: the thresholds are inclusive (>= instead of >).
calculateZoomFromBoundsInclusive(south, west, north, east) ==
    LET area == (north - south) * (east - west)
    IN  IF area >= 100 * SqUnit THEN 0
        ELSE IF area >= 25 * SqUnit THEN 3
        ELSE IF area >= 4 * SqUnit THEN 5
        ELSE IF area >= 1 * SqUnit THEN 7
        ELSE IF 4 * area >= SqUnit THEN 9
        ELSE IF 10 * area >= SqUnit THEN 10
        ELSE 11

calculateZoomFromBounds(south, west, north, east) ==
    LET latDiff == north - south
        lngDiff == east - west
        area    == latDiff * lngDiff
    IN  IF area > 100 * SqUnit THEN 0
        ELSE IF area > 25 * SqUnit THEN 3
        ELSE IF area > 4 * SqUnit THEN 5
        ELSE IF area > 1 * SqUnit THEN 7
        ELSE IF 4 * area > SqUnit THEN 9       \* area > 0.25
        ELSE IF 10 * area > SqUnit THEN 10     \* area > 0.1
        ELSE 11

\* ------------------------------------------------------------ input sets
\* CyclingNode records: id (not unique), osmId (unique), lat, lng.
\* N1..N3 are the points of the documented example; N1 and N3 share an id.
\* N4 and N5 lie 8.9 km and 13.3 km north of N1.
N1 == [id |-> "12", osmId |-> "n1", lat |-> 52000, lng |-> 5000]
N2 == [id |-> "34", osmId |-> "n2", lat |-> 52001, lng |-> 5001]
N3 == [id |-> "12", osmId |-> "n3", lat |-> 52500, lng |-> 5500]
N4 == [id |-> "56", osmId |-> "n4", lat |-> 52080, lng |-> 5000]
N5 == [id |-> "78", osmId |-> "n5", lat |-> 52120, lng |-> 5000]
NodeUniverse == {N1, N2, N3, N4, N5}

RECURSIVE SeqsUpTo(_, _)
SeqsUpTo(S, n) ==
    IF n = 0 THEN {<<>>}
    ELSE LET shorter == SeqsUpTo(S, n - 1)
         IN  shorter \cup {Append(s, x) : s \in {t \in shorter : Len(t) = n - 1}, x \in S}

NodeLists == SeqsUpTo(NodeUniverse, MaxNodes)

Box(s, w, n, e) == [south |-> s, west |-> w, north |-> n, east |-> e]
\* the documented Netherlands box (12.3 square degrees), a box of exactly
\* 0.25 square degrees and a box of 0.01 square degrees
RequestBoxes ==
    { Box(50700, 3200, 53700, 7300),
      Box(52000, 5000, 52500, 5500),
      Box(52000, 5000, 52100, 5100) }

\* req.query.zoom: absent, or a string (a sequence of characters)
ZoomQueries ==
    { Null, Some(<<>>), Some(<<"0">>), Some(<<"5">>), Some(<<"1", "0">>),
      Some(<<"1", "2">>), Some(<<"-", "1">>), Some(<<"x">>) }

\* ---------------------------------------------------------------- parseInt
DigitValue ==
    ("0" :> 0) @@ ("1" :> 1) @@ ("2" :> 2) @@ ("3" :> 3) @@ ("4" :> 4) @@
    ("5" :> 5) @@ ("6" :> 6) @@ ("7" :> 7) @@ ("8" :> 8) @@ ("9" :> 9)

\* value of the longest prefix of decimal digits of s, read after acc;
\* seen tells whether a digit has been read
RECURSIVE ReadDigits(_, _, _)
ReadDigits(s, acc, seen) ==
    IF s # <<>> /\ Head(s) \in DOMAIN DigitValue
    THEN ReadDigits(Tail(s), 10 * acc + DigitValue[Head(s)], TRUE)
    ELSE IF seen THEN Num(acc) ELSE NaN

\* parseInt(string): optional sign, then decimal digits; NaN without a digit
parseInt(s) ==
    IF s # <<>> /\ Head(s) = "-"
    THEN LET v == ReadDigits(Tail(s), 0, FALSE) IN IF v.nan THEN NaN ELSE Num(-v.val)
    ELSE IF s # <<>> /\ Head(s) = "+" THEN ReadDigits(Tail(s), 0, FALSE)
    ELSE ReadDigits(s, 0, FALSE)

\* ------------------------------------------------------------ the clock
\* 24 hours in ms
CACHE_DURATION == 24 * 60 * 60 * 1000
\* Date.now() is observed every twelve hours, so that a cached copy is seen
\* at age 0, at half its lifetime, at exactly its lifetime and beyond.
TickMs == 12 * 60 * 60 * 1000

\* ------------------------------------------------------------------ state
VARIABLES
    pc,               \* position of the clustered request
    query,            \* req.query.zoom of the request
    bounds,           \* the request's parsed bounds
    explicitZoom,     \* argument of clusterNodesForBounds (Null = null)
    nodes,            \* argument of clusterNodesForBounds
    zoom,             \* clusterNodesForBounds: resolved zoom
    clusterDistance,  \* clusterNodes: radius in km
    clusters,         \* clusterNodes: markers built so far
    used,             \* clusterNodes: consumed indices (0-based)
    i, j,             \* clusterNodes: loop indices (0-based)
    clusterNodes,     \* clusterNodes: members of the group under construction,
                      \* as references (0-based input positions)
    clusterLat, clusterLng, count,
    result,           \* ClusteringResult returned (Null while running)
    argZoom, argBox,  \* arguments of the zoom policy functions
    retDistance, retZoom, \* their results (Null before the call)
    firstResult       \* what the first of two equal calls returned (Null before)

VARIABLES
    dataset,            \* the points on disk, in file order
    rawOk,              \* raw-nodes-data.json can be read and parsed
    indexOk,            \* nodes-chunk-index.json can be read and parsed
    badChunks,          \* ids of the tiles whose file is missing or unparsable
    now,                \* Date.now(), ms
    cyclingNodesCache,  \* module state: cached full dataset or Null
    cacheTimestamp,     \* module state: when it was cached, or Null
    chunkIndex,         \* module state: cached tile index or Null
    chunkCache,         \* module state: Map of tile id -> Chunk
    qpc,                \* position of the request being served
    route,              \* which handler serves it
    params,             \* req.params: south, west, north, east as strings
    box,                \* the parsed bounds
    todo,               \* loadNodesFromChunks: tiles still to visit
    allNodes,           \* loadNodesFromChunks: points gathered so far
    inCatch,            \* loadNodesFromChunks: running its catch block
    response,           \* what was sent (Null while the request runs)
    reads,              \* files read from disk for this request
    failed              \* those of them whose read or parse threw

\* the node downloader (scripts/download-all-nodes.js, src/scripts/download-all-nodes.ts)
VARIABLES
    script,             \* which of the two scripts runs: "js", "ts" ("none": neither)
    dpc,                \* where the script stands
    chunkAt,            \* index of the chunk the main loop is at, 0-based
    retryCount,         \* js: retryCount of the running fetchChunkWithRetry
    attempt,            \* ts: attempt of the running downloadChunk
    dnow,               \* time slept so far, in ms
    sent,               \* the requests posted to Overpass: chunk index and time
    stats,              \* stats.requestsTotal, retriesTotal, chunksCompleted, errors
    downloaded          \* chunks whose nodes were pushed to allNodes

\* requests served side by side (the handlers of the routes file are async)
VARIABLES
    req,                \* per request slot: where its handler stands and what it holds
    started,            \* requests received so far
    clears,             \* DELETE /cache requests completed so far
    cacheReadAt         \* how many clears had completed when the cached dataset was read

engineVars ==
    <<pc, query, bounds, explicitZoom, nodes, zoom, clusterDistance, clusters,
      used, i, j, clusterNodes, clusterLat, clusterLng, count, result>>
policyVars == <<argZoom, argBox, retDistance, retZoom>>
repeatVars == <<firstResult>>
storeVars == <<dataset, rawOk, indexOk, badChunks>>
cacheVars == <<cyclingNodesCache, cacheTimestamp, chunkIndex, chunkCache>>
requestVars == <<qpc, route, params, box, todo, allNodes, inCatch, response, reads, failed>>
serviceVars == <<storeVars, now, cacheVars, requestVars>>
downloadVars ==
    <<script, dpc, chunkAt, retryCount, attempt, dnow, sent, stats, downloaded>>
raceVars == <<req, started, clears, cacheReadAt>>
nonEngineVars == <<policyVars, repeatVars, serviceVars, downloadVars, raceVars>>
nonPolicyVars == <<engineVars, repeatVars, serviceVars, downloadVars, raceVars>>
vars == <<engineVars, policyVars, repeatVars, serviceVars, downloadVars, raceVars>>

\* nodes[i] with the source's 0-based index
At(s, k) == s[k + 1]

\* sum of a coordinate over the referenced members
RECURSIVE SumLat(_, _)
SumLat(ns, refs) ==
    IF refs = <<>> THEN 0 ELSE At(ns, Head(refs)).lat + SumLat(ns, Tail(refs))
RECURSIVE SumLng(_, _)
SumLng(ns, refs) ==
    IF refs = <<>> THEN 0 ELSE At(ns, Head(refs)).lng + SumLng(ns, Tail(refs))

\* Faulty variant: the centre is averaged before the new node is pushed.
MeanLatStale(ns, refs) ==
    Rat(SumLat(ns, SubSeq(refs, 1, Len(refs) - 1)), Len(refs) - 1)

\* clusterNodes.reduce((sum, n) => sum + n.lat, 0) / clusterNodes.length
MeanLat(ns, refs) == Rat(SumLat(ns, refs), Len(refs))
MeanLng(ns, refs) == Rat(SumLng(ns, refs), Len(refs))

\* the marker pushed for a single node
NodeMarker(ns, k) ==
    [ id |-> At(ns, k).id, lat |-> Rat(At(ns, k).lat, 1), lng |-> Rat(At(ns, k).lng, 1),
      osmId |-> At(ns, k).osmId, nodes |-> <<k>>, count |-> 1,
      isCluster |-> FALSE, type |-> "node" ]

\* the marker pushed for a group; id is `cluster_${clusters.length}`
ClusterMarker(n, lat, lng, refs, cnt) ==
    [ id |-> "cluster_" \o ToString(n), lat |-> lat, lng |-> lng,
      nodes |-> refs, count |-> cnt, isCluster |-> TRUE, type |-> "cluster" ]

\* ------------------------------------------------------------------- Init
EngineInit ==
    /\ pc = "idle"
    /\ query = Null
    /\ bounds = Box(0, 0, 0, 0)
    /\ explicitZoom = Null
    /\ nodes = <<>>
    /\ zoom = Num(0)
    /\ clusterDistance = 0
    /\ clusters = <<>>
    /\ used = {}
    /\ i = 0
    /\ j = 0
    /\ clusterNodes = <<>>
    /\ clusterLat = Rat(0, 1)
    /\ clusterLng = Rat(0, 1)
    /\ count = 0
    /\ result = Null

PolicyIdle ==
    /\ argZoom = Num(0)
    /\ argBox = Box(0, 0, 0, 0)
    /\ retDistance = Null
    /\ retZoom = Null

RepeatIdle == firstResult = Null

\* the two request slots
Procs == {1, 2}

\* a slot no request has come to yet
IdleReq ==
    [ pc |-> "idle", route |-> "none", box |-> <<>>, todo |-> <<>>, allNodes |-> <<>>,
      inCatch |-> FALSE, got |-> <<>>, response |-> <<>>, reads |-> {}, failed |-> {},
      startedAt |-> 0, servedReadAt |-> <<>> ]

RaceIdle ==
    /\ req = [p \in Procs |-> IdleReq]
    /\ started = 0
    /\ clears = 0
    /\ cacheReadAt = <<>>

\* no download script is running
DownloadIdle ==
    /\ script = "none"
    /\ dpc = "end"
    /\ chunkAt = 0
    /\ retryCount = 0
    /\ attempt = 1
    /\ dnow = 0
    /\ sent = <<>>
    /\ stats = [requestsTotal |-> 0, retriesTotal |-> 0, chunksCompleted |-> 0, errors |-> 0]
    /\ downloaded = <<>>

\* the module state of the routes file as it is right after import
CachesEmpty ==
    /\ cyclingNodesCache = Null
    /\ cacheTimestamp = Null
    /\ chunkIndex = Null
    /\ chunkCache = [k \in {} |-> Null]

NoRequest ==
    /\ qpc = "idle"
    /\ route = "none"
    /\ params = <<>>
    /\ box = <<>>
    /\ todo = <<>>
    /\ allNodes = <<>>
    /\ inCatch = FALSE
    /\ response = Null
    /\ reads = {}
    /\ failed = {}

ServiceIdle ==
    /\ dataset = <<>>
    /\ rawOk = TRUE
    /\ indexOk = TRUE
    /\ badChunks = {}
    /\ now = TickMs
    /\ CachesEmpty
    /\ NoRequest

Init == EngineInit /\ PolicyIdle /\ RepeatIdle /\ ServiceIdle /\ DownloadIdle /\ RaceIdle

\* ------------------------------------------------- the clustered request
\* GET /cycling-nodes/clustered/:south/:west/:north/:east, up to the await
\* of loadNodesFromChunks: the zoom of the query string is parsed when the
\* parameter is truthy (a non-empty string), else it is null.
ClusteredRoute(q, b) ==
    /\ pc = "idle"
    /\ query' = q
    /\ bounds' = b
    /\ explicitZoom' = IF q # Null /\ q[1] # <<>> THEN Some(parseInt(q[1])) ELSE Null
    /\ pc' = "loading"
    /\ UNCHANGED <<nodes, zoom, clusterDistance, clusters, used, i, j,
                   clusterNodes, clusterLat, clusterLng, count, result>>
    /\ UNCHANGED nonEngineVars

\* Faulty variant: the explicit zoom is tested for truthiness, so zoom 0 counts as absent.
ResolveZoomTruthy(ez, b) ==
    IF ez # Null /\ ~(ez[1].nan) /\ ez[1].val # 0 THEN ez[1]
    ELSE Num(calculateZoomFromBounds(b.south, b.west, b.north, b.east))

\* explicitZoom !== null ? explicitZoom : calculateZoomFromBounds(...)
ResolveZoom(ez, b) ==
    IF ez # Null THEN ez[1]
    ELSE Num(calculateZoomFromBounds(b.south, b.west, b.north, b.east))

\* nodes.map(node => ({...node, nodes: [node], count: 1, isCluster: false}))
Singletons(ns) == [k \in 1..Len(ns) |-> NodeMarker(ns, k - 1)]

\* The nodes arrive and clusterNodesForBounds runs: the zoom is resolved and
\* clusterNodes starts; with radius 0 it returns the singletons at once.
\* Faulty variant: the marker list outlives the call that filled it.
KeptMarkers(prev) == prev

\* const clusters: NodeCluster[] = []: a list of its own for every call
FreshMarkers(prev) == <<>>

\* the entry of clusterNodesForBounds and clusterNodes, up to the outer loop
EnterClusterNodes(ns) ==
    /\ nodes' = ns
    /\ zoom' = ResolveZoom(explicitZoom, bounds)
    /\ clusterDistance' = getClusterDistance(zoom')
    /\ IF clusterDistance' = 0
       THEN /\ clusters' = Singletons(ns)
            /\ pc' = "return"
       ELSE /\ clusters' = FreshMarkers(clusters)
            /\ pc' = "outer"
    /\ used' = {}
    /\ i' = 0
    /\ UNCHANGED <<query, bounds, explicitZoom, j, clusterNodes, clusterLat,
                   clusterLng, count>>

ClusterNodesForBounds(ns) ==
    /\ pc = "loading"
    /\ EnterClusterNodes(ns)
    /\ UNCHANGED result
    /\ UNCHANGED nonEngineVars

\* Faulty variant: the loop index is not advanced.
SameIndex(k) == k

\* i++ and j++ of the two for loops of clusterNodes
NextIndex(k) == k + 1

\* for (let i = 0; i < nodes.length; i++): one test of the outer loop
OuterStep ==
    /\ pc = "outer"
    /\ IF i >= Len(nodes)
       THEN /\ pc' = "return"
            /\ UNCHANGED <<i, j, used, clusterNodes, clusterLat, clusterLng, count>>
       ELSE IF i \in used
       THEN /\ i' = NextIndex(i)
            /\ UNCHANGED <<pc, j, used, clusterNodes, clusterLat, clusterLng, count>>
       ELSE /\ clusterNodes' = <<i>>
            /\ clusterLat' = Rat(At(nodes, i).lat, 1)
            /\ clusterLng' = Rat(At(nodes, i).lng, 1)
            /\ count' = 1
            /\ used' = used \cup {i}
            /\ j' = i + 1
            /\ pc' = "inner"
            /\ UNCHANGED i
    /\ UNCHANGED <<query, bounds, explicitZoom, nodes, zoom, clusterDistance,
                   clusters, result>>
    /\ UNCHANGED nonEngineVars

\* Faulty variant: the distance is taken from the group's current centre.
CandidateDistanceFromCentre(ns, seed, lat, lng, cand) ==
    getDistance(lat.num \div lat.den, lng.num \div lng.den,
                At(ns, cand).lat, At(ns, cand).lng)

\* getDistance(centerNode.lat, centerNode.lng, node.lat, node.lng), metres
CandidateDistance(ns, seed, lat, lng, cand) ==
    getDistance(At(ns, seed).lat, At(ns, seed).lng, At(ns, cand).lat, At(ns, cand).lng)

\* Faulty variant: a node that joins a group is not marked as used.
MarkUsedForgets(u, k) == u

\* used.add(j)
MarkUsed(u, k) == u \cup {k}

\* for (let j = i + 1; j < nodes.length; j++): one test of the inner loop
InnerStep ==
    /\ pc = "inner"
    /\ IF j >= Len(nodes)
       THEN /\ pc' = "push"
            /\ UNCHANGED <<j, used, clusterNodes, clusterLat, clusterLng, count>>
       ELSE IF j \in used
       THEN /\ j' = NextIndex(j)
            /\ UNCHANGED <<pc, used, clusterNodes, clusterLat, clusterLng, count>>
       ELSE /\ IF CandidateDistance(nodes, i, clusterLat, clusterLng, j)
                     <= clusterDistance * 1000
               THEN /\ clusterNodes' = Append(clusterNodes, j)
                    /\ count' = count + 1
                    /\ used' = MarkUsed(used, j)
                    /\ clusterLat' = MeanLat(nodes, clusterNodes')
                    /\ clusterLng' = MeanLng(nodes, clusterNodes')
               ELSE UNCHANGED <<used, clusterNodes, clusterLat, clusterLng, count>>
            /\ j' = NextIndex(j)
            /\ UNCHANGED pc
    /\ UNCHANGED <<query, bounds, explicitZoom, nodes, zoom, clusterDistance,
                   clusters, i, result>>
    /\ UNCHANGED nonEngineVars

\* Faulty variant: a group of any size is pushed as a cluster marker.
GroupMarkerAlwaysCluster(ns, cs, seed, refs, lat, lng, cnt) ==
    ClusterMarker(Len(cs), lat, lng, refs, cnt)

\* Faulty variant: the marker is put in front of the list (unshift instead of push).
PushMarkerFront(cs, m) == <<m>> \o cs

\* if (count === 1) { node marker } else { cluster marker }
GroupMarker(ns, cs, seed, refs, lat, lng, cnt) ==
    IF cnt = 1 THEN NodeMarker(ns, seed)
    ELSE ClusterMarker(Len(cs), lat, lng, refs, cnt)

\* clusters.push(...)
PushMarker(cs, m) == Append(cs, m)

\* the end of one outer iteration: the group is pushed, then i++
PushStep ==
    /\ pc = "push"
    /\ clusters' = PushMarker(clusters,
                      GroupMarker(nodes, clusters, i, clusterNodes, clusterLat,
                                  clusterLng, count))
    /\ i' = NextIndex(i)
    /\ pc' = "outer"
    /\ UNCHANGED <<query, bounds, explicitZoom, nodes, zoom, clusterDistance,
                   used, j, clusterNodes, clusterLat, clusterLng, count, result>>
    /\ UNCHANGED nonEngineVars

\* Faulty variant: counts every marker, whatever its isCluster flag.
CountMarkersAll(cs, flag) == Len(cs)

\* number of markers of cs with isCluster = flag
RECURSIVE CountMarkers(_, _)
CountMarkers(cs, flag) ==
    IF cs = <<>> THEN 0
    ELSE (IF Head(cs).isCluster = flag THEN 1 ELSE 0) + CountMarkers(Tail(cs), flag)

\* clusterNodes returns and clusterNodesForBounds builds its ClusteringResult
ReturnStep ==
    /\ pc = "return"
    /\ result' = Some([ clusters |-> clusters,
                        zoom |-> zoom,
                        clusterDistance |-> getClusterDistance(zoom),
                        originalNodeCount |-> Len(nodes),
                        clusterCount |-> CountMarkers(clusters, TRUE),
                        individualNodeCount |-> CountMarkers(clusters, FALSE) ])
    /\ pc' = "done"
    /\ UNCHANGED <<query, bounds, explicitZoom, nodes, zoom, clusterDistance,
                   clusters, used, i, j, clusterNodes, clusterLat, clusterLng, count>>
    /\ UNCHANGED nonEngineVars

Next ==
    \/ \E q \in ZoomQueries, b \in RequestBoxes : ClusteredRoute(q, b)
    \/ \E ns \in NodeLists : ClusterNodesForBounds(ns)
    \/ OuterStep
    \/ InnerStep
    \/ PushStep
    \/ ReturnStep

Spec == Init /\ [][Next]_vars

\* ------------------------------------------------ the same call, once more
\* clusterNodesForBounds is called again with the list, the box and the zoom
\* of the call that has just returned; what that call returned is kept aside.
RepeatCall ==
    /\ pc = "done"
    /\ firstResult = Null
    /\ firstResult' = result
    /\ EnterClusterNodes(nodes)
    /\ result' = Null
    /\ UNCHANGED <<policyVars, serviceVars, downloadVars, raceVars>>

RepeatNext ==
    \/ Next
    \/ RepeatCall

SpecRepeat == Init /\ [][RepeatNext]_vars

\* ===================================================== the query service
\* ------------------------------------------------- numbers of parseFloat
\* A number that may be NaN or infinite; val is in millidegrees for a finite
\* number and the sign for an infinity.
FNum(n) == [kind |-> "num", val |-> n]
FInf(sg) == [kind |-> "inf", val |-> sg]
FNaN == [kind |-> "nan", val |-> 0]
isNaN(f) == f.kind = "nan"

\* a < b and a <= b on JavaScript numbers (false when a side is NaN)
FLt(a, b) ==
    /\ ~isNaN(a) /\ ~isNaN(b)
    /\ IF a.kind = "inf" THEN a.val = -1 /\ ~(b.kind = "inf" /\ b.val = -1)
       ELSE IF b.kind = "inf" THEN b.val = 1
       ELSE a.val < b.val
FLeq(a, b) == ~isNaN(a) /\ ~isNaN(b) /\ (a = b \/ FLt(a, b))

InfinityWord == <<"I", "n", "f", "i", "n", "i", "t", "y">>
IsPrefix(w, s) == Len(w) <= Len(s) /\ SubSeq(s, 1, Len(w)) = w

\* the longest prefix of decimal digits of s
RECURSIVE DigitsPrefix(_)
DigitsPrefix(s) ==
    IF s # <<>> /\ Head(s) \in DOMAIN DigitValue
    THEN <<Head(s)>> \o DigitsPrefix(Tail(s))
    ELSE <<>>

\* the integer a sequence of digits denotes (0 for none)
RECURSIVE DigitsValue(_, _)
DigitsValue(ds, acc) ==
    IF ds = <<>> THEN acc ELSE DigitsValue(Tail(ds), 10 * acc + DigitValue[Head(ds)])

\* the thousandths a fraction's digits denote (the first three count)
Thousandths(fs) ==
    LET d(k) == IF k <= Len(fs) THEN DigitValue[fs[k]] ELSE 0
    IN  100 * d(1) + 10 * d(2) + d(3)

\* parseFloat(string), in millidegrees: an optional sign, then Infinity or
\* digits with an optional fraction; what follows is ignored and a string
\* that starts with neither is NaN.
parseFloat(s) ==
    LET body == IF s # <<>> /\ Head(s) \in {"-", "+"} THEN Tail(s) ELSE s
        sg == IF s # <<>> /\ Head(s) = "-" THEN -1 ELSE 1
        ip == DigitsPrefix(body)
        rest == SubSeq(body, Len(ip) + 1, Len(body))
        fp == IF rest # <<>> /\ Head(rest) = "." THEN DigitsPrefix(Tail(rest)) ELSE <<>>
    IN  IF IsPrefix(InfinityWord, body) THEN FInf(sg)
        ELSE IF ip = <<>> /\ fp = <<>> THEN FNaN
        ELSE FNum(sg * (1000 * DigitsValue(ip, 0) + Thousandths(fp)))

\* ------------------------------------------------------- the tile grid
\* CONFIG.NETHERLANDS_BBOX (south, west, north, east) and CONFIG.GRID_SIZE
NETHERLANDS_BBOX == <<50700, 3200, 53700, 7300>>
GRID_SIZE == 8

\* south + i * latStep and west + j * lonStep, to the millidegree
LatEdge(row) ==
    NETHERLANDS_BBOX[1] + (row * (NETHERLANDS_BBOX[3] - NETHERLANDS_BBOX[1])) \div GRID_SIZE
LonEdge(col) ==
    NETHERLANDS_BBOX[2] + (col * (NETHERLANDS_BBOX[4] - NETHERLANDS_BBOX[2])) \div GRID_SIZE

\* the tile pushed for a row and a column: adjacent tiles share their edge
GridChunk(row, col) ==
    [ id |-> row * GRID_SIZE + col + 1,
      bounds |-> <<LatEdge(row), LonEdge(col), LatEdge(row + 1), LonEdge(col + 1)>> ]

\* generateChunks(): rows outside, columns inside
generateChunks ==
    [ k \in 1..(GRID_SIZE * GRID_SIZE) |->
          GridChunk((k - 1) \div GRID_SIZE, (k - 1) % GRID_SIZE) ]

\* the ChunkIndex written by createChunkIndex
IndexFile == [ gridSize |-> GRID_SIZE, chunks |-> generateChunks ]

\* ------------------------------------------------------ the files on disk
\* A point on the edge that tiles 28 and 36 share, besides N1 (inside tile 28).
N6 == [id |-> "90", osmId |-> "n6", lat |-> 52200, lng |-> 5000]
AllPoints == <<N6, N1>>
Datasets == { SubSeq(AllPoints, 1, n) : n \in 0..Len(AllPoints) }
BadChunkSets == { {}, {28} }

\* node["rcn_ref"](south,west,north,east): the points of the bounding box,
\* its border included
InChunkQuery(n, b) ==
    /\ b[1] <= n.lat /\ n.lat <= b[3]
    /\ b[2] <= n.lng /\ n.lng <= b[4]

\* Faulty variant: a tile's fetch leaves out the points on the tile's edges.
fetchChunkOpen(ns, chunk) ==
    SelectSeq(ns, LAMBDA n : /\ chunk.bounds[1] < n.lat /\ n.lat < chunk.bounds[3]
                             /\ chunk.bounds[2] < n.lng /\ n.lng < chunk.bounds[4])

\* fetchChunkWithRetry(chunk): the nodes the tile's query returns
fetchChunk(ns, chunk) == SelectSeq(ns, LAMBDA n : InChunkQuery(n, chunk.bounds))

\* saveChunk(chunk, nodes): the tile's file
ChunkFile(k) ==
    [ id |-> k, bounds |-> generateChunks[k].bounds,
      nodes |-> fetchChunk(dataset, generateChunks[k]) ]

\* saveData: the raw file, as loadLocalNodes returns it
RawFile == [ nodes |-> dataset, count |-> Len(dataset) ]

\* names of the files a request may read
RawRead == [file |-> "raw", id |-> 0]
IndexRead == [file |-> "index", id |-> 0]
ChunkRead(k) == [file |-> "chunk", id |-> k]

\* ------------------------------------------------------------- requests
\* south, west, north, east of the path: a box over four tiles, a box whose
\* north side lies on a tile edge, a box that holds one of two points of a
\* tile, a box over an empty tile, a box east of every tile, a box with a
\* side that is no number
FiniteParams ==
    LET s51_9 == <<"5", "1", ".", "9">>
        s4_9 == <<"4", ".", "9">>
        s52_2 == <<"5", "2", ".", "2">>
        s52_3 == <<"5", "2", ".", "3">>
        s5_1 == <<"5", ".", "1">>
        s5_3 == <<"5", ".", "3">>
        s53_1 == <<"5", "3", ".", "1">>
        s6_1 == <<"6", ".", "1">>
    IN  { <<s51_9, s4_9, s52_3, s5_3>>,
          <<s51_9, s4_9, s52_2, s5_1>>,
          << <<"5", "2", ".", "1">>, s4_9, s52_3, s5_1 >>,
          << <<"5", "3">>, <<"6">>, s53_1, s6_1 >>,
          << <<"5", "3">>, <<"1", "0">>, <<"5", "4">>, <<"1", "1">> >>,
          <<s51_9, <<"a", "b", "c">>, s52_3, s5_3>> }
\* and a box whose north side is Infinity
BoundsParams ==
    FiniteParams \cup
        { << <<"5", "2", ".", "1">>, <<"4", ".", "9">>, InfinityWord, <<"5", ".", "1">> >> }
\* req.query.zoom of the clustered requests
ServiceZooms == { Null, Some(<<"1", "2">>) }

\* ------------------------------------------------- the loaders, as functions
\* node.lat >= south && node.lat <= north && node.lng >= west && node.lng <= east
InBounds(n, b) ==
    /\ FLeq(b.south, FNum(n.lat)) /\ FLeq(FNum(n.lat), b.north)
    /\ FLeq(b.west, FNum(n.lng)) /\ FLeq(FNum(n.lng), b.east)

\* Faulty variant: the list is handed on without the test of the box.
FilterNodesKeepsAll(ns, b) == ns

\* allNodes.filter(...) of filterNodesByBounds and chunk.nodes.filter(...)
FilterNodes(ns, b) == SelectSeq(ns, LAMBDA n : InBounds(n, b))

\* Faulty variant: tiles that only touch the box are not taken.
IntersectsOpen(b, c) ==
    ~(\/ FLeq(b.east, FNum(c.bounds[2])) \/ FLeq(FNum(c.bounds[4]), b.west)
      \/ FLeq(b.north, FNum(c.bounds[1])) \/ FLeq(FNum(c.bounds[3]), b.south))

\* !(east < chunkWest || west > chunkEast || north < chunkSouth || south > chunkNorth)
Intersects(b, c) ==
    ~(\/ FLt(b.east, FNum(c.bounds[2])) \/ FLt(FNum(c.bounds[4]), b.west)
      \/ FLt(b.north, FNum(c.bounds[1])) \/ FLt(FNum(c.bounds[3]), b.south))

\* findIntersectingChunks(south, west, north, east) over a loaded index
findIntersectingChunks(index, b) ==
    IF index = Null THEN <<>>
    ELSE SelectSeq(index[1].chunks, LAMBDA c : Intersects(b, c))

\* Faulty variant: a copy whose age has just reached the lifetime still counts.
CacheValidAtLifetime ==
    /\ cyclingNodesCache # Null
    /\ cacheTimestamp # Null /\ cacheTimestamp[1] # 0
    /\ now - cacheTimestamp[1] <= CACHE_DURATION

\* cyclingNodesCache && cacheTimestamp && (Date.now() - cacheTimestamp) < CACHE_DURATION
CacheValid ==
    /\ cyclingNodesCache # Null
    /\ cacheTimestamp # Null /\ cacheTimestamp[1] # 0
    /\ now - cacheTimestamp[1] < CACHE_DURATION

\* Object.values(bounds).some(val => isNaN(val))
SomeNaN(b) == isNaN(b.south) \/ isNaN(b.west) \/ isNaN(b.north) \/ isNaN(b.east)

ParseBounds(p) ==
    [ south |-> parseFloat(p[1]), west |-> parseFloat(p[2]),
      north |-> parseFloat(p[3]), east |-> parseFloat(p[4]) ]

\* ------------------------------------------------------------ responses
BadRequest == [status |-> 400, error |-> "Invalid bounds parameters"]
ServerError == [status |-> 500, error |-> "Failed to load"]
SourceOf(index) == IF index # Null THEN "chunks" ELSE "local"
BoundsBody(ns, index) ==
    [status |-> 200, nodes |-> ns, count |-> Len(ns), source |-> SourceOf(index)]
AllNodesBody(data) == [status |-> 200, nodes |-> data.nodes, count |-> data.count]
ClearedBody == [status |-> 200, message |-> "Cache cleared successfully"]
\* the markers as they are serialised: every member is the node itself
MarkersOut(ns, cs) ==
    [ m \in 1..Len(cs) |->
          [cs[m] EXCEPT !.nodes = [k \in 1..Len(cs[m].nodes) |-> At(ns, cs[m].nodes[k])]] ]
ClusteredBody(ns, r, index) ==
    [ status |-> 200, clusters |-> MarkersOut(ns, r.clusters),
      count |-> Len(r.clusters), zoom |-> r.zoom,
      clusterDistance |-> r.clusterDistance,
      originalNodeCount |-> r.originalNodeCount,
      clusterCount |-> r.clusterCount,
      individualNodeCount |-> r.individualNodeCount,
      source |-> SourceOf(index) ]

\* --------------------------------------------------------------- actions
CanStart == qpc \in {"idle", "done"}

\* a handler starts on a request: nothing gathered, nothing read yet
StartRequest(r, p, b) ==
    /\ CanStart
    /\ route' = r
    /\ params' = p
    /\ box' = b
    /\ todo' = <<>>
    /\ allNodes' = <<>>
    /\ inCatch' = FALSE
    /\ failed' = {}

\* GET /cycling-nodes/bounds/:south/:west/:north/:east up to its first await
BoundsRoute(p) ==
    /\ StartRequest("bounds", p, ParseBounds(p))
    /\ reads' = {}
    /\ IF SomeNaN(ParseBounds(p))
       THEN response' = Some(BadRequest) /\ qpc' = "done"
       ELSE response' = Null /\ qpc' = "index"
    /\ UNCHANGED <<storeVars, now, cacheVars>>
    /\ UNCHANGED <<engineVars, policyVars, repeatVars, downloadVars, raceVars>>

\* GET /cycling-nodes/clustered/:south/:west/:north/:east?zoom= up to its
\* first await; boxes with an infinite side are sent to the bounds route only.
ClusteredRequest(p, q) ==
    /\ StartRequest("clustered", p, ParseBounds(p))
    /\ reads' = {}
    /\ query' = q
    /\ explicitZoom' = IF q # Null /\ q[1] # <<>> THEN Some(parseInt(q[1])) ELSE Null
    /\ IF SomeNaN(ParseBounds(p))
       THEN response' = Some(BadRequest) /\ qpc' = "done" /\ UNCHANGED bounds
       ELSE /\ response' = Null
            /\ qpc' = "index"
            /\ bounds' = Box(ParseBounds(p).south.val, ParseBounds(p).west.val,
                             ParseBounds(p).north.val, ParseBounds(p).east.val)
    /\ UNCHANGED <<pc, nodes, zoom, clusterDistance, clusters, used, i, j,
                   clusterNodes, clusterLat, clusterLng, count, result>>
    /\ UNCHANGED <<storeVars, now, cacheVars>>
    /\ UNCHANGED <<policyVars, repeatVars, downloadVars, raceVars>>

\* loadNodesFromChunks returns ns to the route: the bounds route answers,
\* the clustered route calls clusterNodesForBounds on them
Deliver(ns, index) ==
    IF route = "bounds"
    THEN /\ response' = Some(BoundsBody(ns, index))
         /\ qpc' = "done"
         /\ UNCHANGED engineVars
    ELSE /\ EnterClusterNodes(ns)
         /\ result' = Null
         /\ response' = Null
         /\ qpc' = "cluster"

\* Faulty variant: the filter drops the other points from the array itself.
ArrayAfterFilterInPlace(ns, b) == FilterNodes(ns, b)

\* the array a filter(...) was called on, after the call: filter builds a new
\* array and leaves its own alone
ArrayAfterFilter(ns, b) == ns

\* Faulty variant: without an index there are no tiles, so nothing is returned.
EnterNoTiles(rd) ==
    /\ Deliver(<<>>, chunkIndex')
    /\ reads' = rd
    /\ UNCHANGED cyclingNodesCache

\* filterNodesByBounds up to its await: a valid cached copy is filtered at
\* once, else loadLocalNodes starts reading the raw file. rd: files read so far
EnterFilterNodesByBounds(rd) ==
    IF CacheValid
    THEN /\ Deliver(FilterNodes(cyclingNodesCache[1].nodes, box), chunkIndex')
         /\ cyclingNodesCache' =
                Some([cyclingNodesCache[1] EXCEPT !.nodes = ArrayAfterFilter(@, box)])
         /\ reads' = rd
    ELSE /\ qpc' = "scanLoad"
         /\ reads' = rd \cup {RawRead}
         /\ UNCHANGED <<response, engineVars, cyclingNodesCache>>

\* await loadChunkIndex() returns in loadNodesFromChunks: without an index the
\* full scan takes over, else the tiles to visit are picked
LoadChunkIndex ==
    /\ qpc = "index"
    /\ LET hit == chunkIndex # Null
           index == IF hit THEN chunkIndex ELSE IF indexOk THEN Some(IndexFile) ELSE Null
           rd == IF hit THEN reads ELSE reads \cup {IndexRead}
           chunks == findIntersectingChunks(index, box)
       IN  /\ chunkIndex' = index
           /\ failed' = IF hit \/ indexOk THEN failed ELSE failed \cup {IndexRead}
           /\ IF index = Null
              THEN EnterFilterNodesByBounds(rd) /\ todo' = <<>>
              ELSE /\ reads' = rd
                   /\ todo' = chunks
                   /\ IF chunks = <<>>
                      THEN Deliver(<<>>, index)
                      ELSE qpc' = "chunks" /\ UNCHANGED <<response, engineVars>>
                   /\ UNCHANGED cyclingNodesCache
    /\ UNCHANGED <<storeVars, now, cacheTimestamp, chunkCache>>
    /\ UNCHANGED <<route, params, box, allNodes, inCatch>>
    /\ UNCHANGED <<policyVars, repeatVars, downloadVars, raceVars>>

\* await loadChunk(chunkInfo.id) returns for the next tile: a tile that could
\* not be loaded comes back as null and is passed over
LoadChunk ==
    /\ qpc = "chunks"
    /\ LET c == Head(todo)
           hit == c.id \in DOMAIN chunkCache
           loaded == hit \/ c.id \notin badChunks
           chunk == IF hit THEN chunkCache[c.id] ELSE ChunkFile(c.id)
           got == IF loaded THEN allNodes \o FilterNodes(chunk.nodes, box) ELSE allNodes
           kept == [chunk EXCEPT !.nodes = ArrayAfterFilter(@, box)]
       IN  /\ chunkCache' = IF loaded
                            THEN [ k \in DOMAIN chunkCache \cup {c.id} |->
                                       IF k = c.id THEN kept ELSE chunkCache[k] ]
                            ELSE chunkCache
           /\ reads' = IF hit THEN reads ELSE reads \cup {ChunkRead(c.id)}
           /\ failed' = IF loaded THEN failed ELSE failed \cup {ChunkRead(c.id)}
           /\ allNodes' = got
           /\ todo' = Tail(todo)
           /\ IF Tail(todo) = <<>>
              THEN Deliver(got, chunkIndex)
              ELSE qpc' = "chunks" /\ UNCHANGED <<response, engineVars>>
    /\ UNCHANGED <<storeVars, now, cyclingNodesCache, cacheTimestamp, chunkIndex>>
    /\ UNCHANGED <<route, params, box, inCatch>>
    /\ UNCHANGED <<policyVars, repeatVars, downloadVars, raceVars>>

\* await loadLocalNodes() returns or throws in filterNodesByBounds; a throw
\* lands in the catch of loadNodesFromChunks, which calls filterNodesByBounds
\* once more, and a throw from there reaches the route's catch
ScanLoad ==
    /\ qpc = "scanLoad"
    /\ IF rawOk
       THEN /\ cyclingNodesCache' =
                   Some([RawFile EXCEPT !.nodes = ArrayAfterFilter(@, box)])
            /\ cacheTimestamp' = Some(now)
            /\ Deliver(FilterNodes(RawFile.nodes, box), chunkIndex)
            /\ UNCHANGED <<reads, failed, inCatch>>
       ELSE /\ failed' = failed \cup {RawRead}
            /\ UNCHANGED cacheTimestamp
            /\ IF inCatch
               THEN /\ response' = Some(ServerError)
                    /\ qpc' = "done"
                    /\ UNCHANGED <<reads, inCatch, engineVars, cyclingNodesCache>>
               ELSE /\ inCatch' = TRUE
                    /\ EnterFilterNodesByBounds(reads)
    /\ UNCHANGED <<storeVars, now, chunkIndex, chunkCache>>
    /\ UNCHANGED <<route, params, box, todo, allNodes>>
    /\ UNCHANGED <<policyVars, repeatVars, downloadVars, raceVars>>

\* the clustered route sends what clusterNodesForBounds returned
ClusteredRespond ==
    /\ qpc = "cluster"
    /\ pc = "done"
    /\ response' = Some(ClusteredBody(nodes, result[1], chunkIndex))
    /\ qpc' = "done"
    /\ pc' = "idle"
    /\ query' = Null
    /\ bounds' = Box(0, 0, 0, 0)
    /\ explicitZoom' = Null
    /\ nodes' = <<>>
    /\ zoom' = Num(0)
    /\ clusterDistance' = 0
    /\ clusters' = <<>>
    /\ used' = {}
    /\ i' = 0
    /\ j' = 0
    /\ clusterNodes' = <<>>
    /\ clusterLat' = Rat(0, 1)
    /\ clusterLng' = Rat(0, 1)
    /\ count' = 0
    /\ result' = Null
    /\ UNCHANGED <<storeVars, now, cacheVars>>
    /\ UNCHANGED <<route, params, box, todo, allNodes, inCatch, reads, failed>>
    /\ UNCHANGED <<policyVars, repeatVars, downloadVars, raceVars>>

\* GET /cycling-nodes up to its await: a valid cached copy is sent as it is
AllNodesRoute ==
    /\ StartRequest("all", <<>>, <<>>)
    /\ IF CacheValid
       THEN /\ response' = Some(AllNodesBody(cyclingNodesCache[1]))
            /\ qpc' = "done"
            /\ reads' = {}
       ELSE /\ response' = Null
            /\ qpc' = "allLoad"
            /\ reads' = {RawRead}
    /\ UNCHANGED <<storeVars, now, cacheVars>>
    /\ UNCHANGED <<engineVars, policyVars, repeatVars, downloadVars, raceVars>>

\* await loadLocalNodes() returns or throws in GET /cycling-nodes
AllLoad ==
    /\ qpc = "allLoad"
    /\ IF rawOk
       THEN /\ cyclingNodesCache' = Some(RawFile)
            /\ cacheTimestamp' = Some(now)
            /\ response' = Some(AllNodesBody(RawFile))
            /\ UNCHANGED failed
       ELSE /\ response' = Some(ServerError)
            /\ failed' = failed \cup {RawRead}
            /\ UNCHANGED <<cyclingNodesCache, cacheTimestamp>>
    /\ qpc' = "done"
    /\ UNCHANGED <<storeVars, now, chunkIndex, chunkCache>>
    /\ UNCHANGED <<route, params, box, todo, allNodes, inCatch, reads>>
    /\ UNCHANGED <<engineVars, policyVars, repeatVars, downloadVars, raceVars>>

\* DELETE /cache
ClearCache ==
    /\ StartRequest("clear", <<>>, <<>>)
    /\ reads' = {}
    /\ cyclingNodesCache' = Null
    /\ cacheTimestamp' = Null
    /\ response' = Some(ClearedBody)
    /\ qpc' = "done"
    /\ UNCHANGED <<storeVars, now, chunkIndex, chunkCache>>
    /\ UNCHANGED <<engineVars, policyVars, repeatVars, downloadVars, raceVars>>

\* time passes
Tick ==
    /\ now < (MaxTicks + 1) * TickMs
    /\ now' = now + TickMs
    /\ UNCHANGED <<storeVars, cacheVars, requestVars>>
    /\ UNCHANGED <<engineVars, policyVars, repeatVars, downloadVars, raceVars>>

ServiceInit ==
    /\ EngineInit
    /\ PolicyIdle
    /\ RepeatIdle
    /\ dataset \in Datasets
    /\ rawOk \in BOOLEAN
    /\ indexOk \in BOOLEAN
    /\ badChunks \in BadChunkSets
    /\ indexOk \/ badChunks = {}
    /\ now = TickMs
    /\ CachesEmpty
    /\ NoRequest
    /\ DownloadIdle
    /\ RaceIdle

ServiceNext ==
    \/ \E p \in BoundsParams : BoundsRoute(p)
    \/ \E p \in FiniteParams, q \in ServiceZooms : ClusteredRequest(p, q)
    \/ LoadChunkIndex
    \/ LoadChunk
    \/ ScanLoad
    \/ OuterStep
    \/ InnerStep
    \/ PushStep
    \/ ReturnStep
    \/ ClusteredRespond
    \/ AllNodesRoute
    \/ AllLoad
    \/ ClearCache
    \/ Tick

SpecQuery == ServiceInit /\ [][ServiceNext]_vars

\* ------------------------------------------- the zoom policy, on its own
\* Boxes whose area sits on, between and beyond every threshold of
\* calculateZoomFromBounds (side lengths in millidegrees), among them the
\* documented box and two inverted boxes.
BoxSides ==
    { <<11000, 10000>>, <<10000, 10000>>, <<6000, 5000>>, <<5000, 5000>>,
      <<3000, 4100>>, <<2000, 2000>>, <<1500, 1000>>, <<1000, 1000>>,
      <<600, 500>>, <<500, 500>>, <<400, 300>>, <<400, 250>>, <<100, 100>>,
      <<0, 500>>, <<-1000, 1000>>, <<-11000, -10000>> }
PolicyBoxes == { Box(50700, 3200, 50700 + d[1], 3200 + d[2]) : d \in BoxSides }
PolicyZooms == { Num(z) : z \in (-3)..MaxZoom } \cup {NaN}

PolicyInit ==
    /\ EngineInit
    /\ argZoom \in PolicyZooms
    /\ argBox \in PolicyBoxes
    /\ retDistance = Null
    /\ retZoom = Null
    /\ RepeatIdle
    /\ ServiceIdle
    /\ DownloadIdle
    /\ RaceIdle

GetClusterDistanceCall ==
    /\ retDistance = Null
    /\ retDistance' = Some(getClusterDistance(argZoom))
    /\ UNCHANGED <<argZoom, argBox, retZoom>>
    /\ UNCHANGED nonPolicyVars

CalculateZoomFromBoundsCall ==
    /\ retZoom = Null
    /\ retZoom' = Some(calculateZoomFromBounds(argBox.south, argBox.west,
                                               argBox.north, argBox.east))
    /\ UNCHANGED <<argZoom, argBox, retDistance>>
    /\ UNCHANGED nonPolicyVars

PolicyNext ==
    \/ GetClusterDistanceCall
    \/ CalculateZoomFromBoundsCall

SpecPolicy == PolicyInit /\ [][PolicyNext]_vars

\* ==================================================== the node downloader
\* Two scripts download the nodes chunk by chunk: scripts/download-all-nodes.js
\* (downloadAllNodes, fetchChunkWithRetry) and src/scripts/download-all-nodes.ts
\* (main, downloadChunk). Time passes in sleep() only: a request is taken to
\* be answered at once, the shortest wait a run can show.
REQUEST_DELAY == 3000
RETRY_DELAY == 10000
MAX_RETRIES == 3

\* what a request to Overpass ends in: a response, a failure whose response
\* has status 429 or 504, any other failure
Outcomes == {"ok", "busy", "error"}

\* the chunks of the run's main loop: the first MaxChunks of the grid
DownloadChunks == SubSeq(generateChunks, 1, MaxChunks)

\* axios.post(...): the request for the chunk at hand goes out
PostRequest == Append(sent, [chunk |-> At(DownloadChunks, chunkAt).id, at |-> dnow])

\* js, fetchChunkWithRetry(chunk, retryCount): one request and what follows
\* it up to the next request or the return
FetchChunkWithRetry(o) ==
    /\ script = "js" /\ dpc = "fetch"
    /\ sent' = PostRequest
    /\ IF o = "ok"
       THEN /\ stats' = [stats EXCEPT !.requestsTotal = @ + 1, !.chunksCompleted = @ + 1]
            /\ dpc' = "returned"
            /\ UNCHANGED <<retryCount, dnow>>
       ELSE IF o = "busy" /\ retryCount < MAX_RETRIES
       THEN /\ stats' = [stats EXCEPT !.requestsTotal = @ + 1, !.errors = @ + 1,
                                       !.retriesTotal = @ + 1]
            /\ dnow' = dnow + RETRY_DELAY * (retryCount + 1)
            /\ retryCount' = retryCount + 1
            /\ UNCHANGED dpc
       ELSE /\ stats' = [stats EXCEPT !.requestsTotal = @ + 1, !.errors = @ + 1]
            /\ dpc' = "gaveUp"
            /\ UNCHANGED <<retryCount, dnow>>
    /\ UNCHANGED <<script, chunkAt, attempt, downloaded>>
    /\ UNCHANGED <<engineVars, policyVars, repeatVars, serviceVars, raceVars>>

\* js, the loop of downloadAllNodes after fetchChunkWithRetry has returned:
\* the nodes (none after a failure) are kept, and but for the last chunk the
\* request delay is slept
DownloadAllNodes ==
    /\ script = "js" /\ dpc \in {"returned", "gaveUp"}
    /\ downloaded' = IF dpc = "returned" THEN Append(downloaded, chunkAt) ELSE downloaded
    /\ dnow' = IF chunkAt < Len(DownloadChunks) - 1 THEN dnow + REQUEST_DELAY ELSE dnow
    /\ chunkAt' = chunkAt + 1
    /\ retryCount' = 0
    /\ dpc' = IF chunkAt + 1 < Len(DownloadChunks) THEN "fetch" ELSE "end"
    /\ UNCHANGED <<script, attempt, sent, stats>>
    /\ UNCHANGED <<engineVars, policyVars, repeatVars, serviceVars, raceVars>>

\* ts, downloadChunk(chunk): one pass of for (let attempt = 1; attempt <=
\* CONFIG.MAX_RETRIES; attempt++)
DownloadChunk(o) ==
    /\ script = "ts" /\ dpc = "fetch"
    /\ sent' = PostRequest
    /\ IF o = "ok"
       THEN /\ stats' = [stats EXCEPT !.requestsTotal = @ + 1]
            /\ dpc' = "returned"
            /\ UNCHANGED <<attempt, dnow>>
       ELSE IF attempt = MAX_RETRIES
       THEN /\ stats' = [stats EXCEPT !.requestsTotal = @ + 1, !.errors = @ + 1]
            /\ dpc' = "gaveUp"
            /\ UNCHANGED <<attempt, dnow>>
       ELSE /\ stats' = [stats EXCEPT !.requestsTotal = @ + 1, !.retriesTotal = @ + 1]
            /\ dnow' = dnow + RETRY_DELAY
            /\ attempt' = attempt + 1
            /\ UNCHANGED dpc
    /\ UNCHANGED <<script, chunkAt, retryCount, downloaded>>
    /\ UNCHANGED <<engineVars, policyVars, repeatVars, serviceVars, raceVars>>

\* ts, the loop of main after downloadChunk has returned or thrown: after a
\* return the nodes are kept and the request delay is slept while chunks are
\* missing from the count; the catch of a throw goes on to the next chunk
Main ==
    /\ script = "ts" /\ dpc \in {"returned", "gaveUp"}
    /\ IF dpc = "returned"
       THEN /\ downloaded' = Append(downloaded, chunkAt)
            /\ stats' = [stats EXCEPT !.chunksCompleted = @ + 1]
            /\ dnow' = IF stats'.chunksCompleted < Len(DownloadChunks)
                       THEN dnow + REQUEST_DELAY ELSE dnow
       ELSE UNCHANGED <<downloaded, stats, dnow>>
    /\ chunkAt' = chunkAt + 1
    /\ attempt' = 1
    /\ dpc' = IF chunkAt + 1 < Len(DownloadChunks) THEN "fetch" ELSE "end"
    /\ UNCHANGED <<script, retryCount, sent>>
    /\ UNCHANGED <<engineVars, policyVars, repeatVars, serviceVars, raceVars>>

\* one of the scripts has been started and stands before its first request
DownloadInit ==
    /\ EngineInit
    /\ PolicyIdle
    /\ RepeatIdle
    /\ ServiceIdle
    /\ RaceIdle
    /\ script \in {"js", "ts"}
    /\ dpc = "fetch"
    /\ chunkAt = 0
    /\ retryCount = 0
    /\ attempt = 1
    /\ dnow = 0
    /\ sent = <<>>
    /\ stats = [requestsTotal |-> 0, retriesTotal |-> 0, chunksCompleted |-> 0, errors |-> 0]
    /\ downloaded = <<>>

DownloadNext ==
    \/ \E o \in Outcomes : FetchChunkWithRetry(o)
    \/ DownloadAllNodes
    \/ \E o \in Outcomes : DownloadChunk(o)
    \/ Main

SpecDownload == DownloadInit /\ [][DownloadNext]_vars

\* ============================================== requests side by side
\* The handlers are async functions: a handler runs up to an await of
\* fs.readFile, the file is read while other handlers run, and the handler
\* goes on when the read has come back. Two slots take GET /cycling-nodes
\* and the bounds route for one box; DELETE /cache has no await and runs in
\* one piece. The raw file may be lost while the server runs.
RaceParams == << <<"5", "2", ".", "1">>, <<"4", ".", "9">>, <<"5", "2", ".", "3">>, <<"5", ".", "1">> >>

\* Faulty variant: a load that failed empties the cache variable.
CacheAfterLoadOrNull(ok, data, old) == IF ok THEN Some(data) ELSE Null

\* the cache variable after the await of a load: assigned when the load came
\* back, left alone when it threw
CacheAfterLoad(ok, data, old) == IF ok THEN Some(data) ELSE old

\* the bounds route answers with the nodes loadNodesFromChunks returned
RespondBounds(r, ns, index) ==
    [r EXCEPT !.pc = "done", !.response = Some(BoundsBody(ns, index))]

\* Faulty variant: while another request is loading the dataset, the request
\* does not load it but goes on with no nodes.
CallFilterNodesByBoundsNoWait(r, index) ==
    IF CacheValid
    THEN [RespondBounds(r, FilterNodes(cyclingNodesCache[1].nodes, r.box), index)
              EXCEPT !.servedReadAt = cacheReadAt]
    ELSE IF \E q \in Procs : req[q].pc \in {"rawRead", "allRead"}
    THEN RespondBounds(r, <<>>, index)
    ELSE [r EXCEPT !.pc = "rawRead", !.got = Null, !.reads = @ \cup {RawRead}]

\* filterNodesByBounds up to its await, for the request r: a valid cached
\* copy is filtered at once, else loadLocalNodes starts reading the raw file
CallFilterNodesByBounds(r, index) ==
    IF CacheValid
    THEN [RespondBounds(r, FilterNodes(cyclingNodesCache[1].nodes, r.box), index)
              EXCEPT !.servedReadAt = cacheReadAt]
    ELSE [r EXCEPT !.pc = "rawRead", !.got = Null, !.reads = @ \cup {RawRead}]

\* loadNodesFromChunks after await loadChunkIndex(): without an index the
\* full scan takes over, else the tiles to visit are picked
AfterLoadChunkIndex(r, index) ==
    IF index = Null THEN CallFilterNodesByBounds(r, index)
    ELSE LET chunks == findIntersectingChunks(index, r.box)
         IN  IF chunks = <<>> THEN RespondBounds(r, <<>>, index)
             ELSE [r EXCEPT !.pc = "chunk", !.todo = chunks]

\* loadNodesFromChunks after await loadChunk(chunkInfo.id) gave chunk (Null
\* when the load failed): its nodes are filtered and the loop goes on
AfterLoadChunk(r, chunk, index) ==
    LET gathered == IF chunk # Null
                    THEN r.allNodes \o FilterNodes(chunk[1].nodes, r.box)
                    ELSE r.allNodes
    IN  IF Tail(r.todo) = <<>> THEN RespondBounds([r EXCEPT !.got = Null], gathered, index)
        ELSE [r EXCEPT !.pc = "chunk", !.allNodes = gathered, !.todo = Tail(@), !.got = Null]

\* a slot is free and a further request may come
CanReceive(p) == req[p].pc \in {"idle", "done"} /\ started < MaxRequests

\* GET /cycling-nodes up to its await
StartAllNodes(p) ==
    /\ CanReceive(p)
    /\ started' = started + 1
    /\ LET r == [IdleReq EXCEPT !.route = "all", !.startedAt = clears]
       IN  req' = [req EXCEPT ![p] =
                      IF CacheValid
                      THEN [r EXCEPT !.pc = "done",
                                     !.response = Some(AllNodesBody(cyclingNodesCache[1])),
                                     !.servedReadAt = cacheReadAt]
                      ELSE [r EXCEPT !.pc = "allRead", !.reads = {RawRead}]]
    /\ UNCHANGED <<clears, cacheReadAt, storeVars, now, cacheVars, requestVars>>
    /\ UNCHANGED <<engineVars, policyVars, repeatVars, downloadVars>>

\* the bounds route up to its first await: loadChunkIndex returns the cached
\* index or starts reading the index file
StartBounds(p) ==
    /\ CanReceive(p)
    /\ started' = started + 1
    /\ LET r == [IdleReq EXCEPT !.route = "bounds", !.box = ParseBounds(RaceParams),
                                !.startedAt = clears]
       IN  req' = [req EXCEPT ![p] =
                      IF chunkIndex # Null THEN AfterLoadChunkIndex(r, chunkIndex)
                      ELSE [r EXCEPT !.pc = "indexRead", !.reads = {IndexRead}]]
    /\ UNCHANGED <<clears, cacheReadAt, storeVars, now, cacheVars, requestVars>>
    /\ UNCHANGED <<engineVars, policyVars, repeatVars, downloadVars>>

\* fs.readFile of an awaiting handler reads (or fails to read) its file
ReadFile(p) ==
    /\ req[p].pc \in {"indexRead", "chunkRead", "rawRead", "allRead"}
    /\ req[p].got = Null
    /\ LET ok == CASE req[p].pc = "indexRead" -> indexOk
                   [] req[p].pc = "chunkRead" -> Head(req[p].todo).id \notin badChunks
                   [] OTHER -> rawOk
       IN  req' = [req EXCEPT ![p].got = Some([ok |-> ok, readAt |-> clears])]
    /\ UNCHANGED <<started, clears, cacheReadAt, storeVars, now, cacheVars, requestVars>>
    /\ UNCHANGED <<engineVars, policyVars, repeatVars, downloadVars>>

\* loadChunkIndex after its await, and loadNodesFromChunks after it
IndexLoaded(p) ==
    /\ req[p].pc = "indexRead"
    /\ req[p].got # Null
    /\ LET ok == req[p].got[1].ok
           r == [req[p] EXCEPT !.got = Null,
                               !.failed = IF ok THEN @ ELSE @ \cup {IndexRead}]
       IN  /\ chunkIndex' = CacheAfterLoad(ok, IndexFile, chunkIndex)
           /\ req' = [req EXCEPT ![p] = AfterLoadChunkIndex(r, chunkIndex')]
    /\ UNCHANGED <<started, clears, cacheReadAt, storeVars, now, requestVars>>
    /\ UNCHANGED <<cyclingNodesCache, cacheTimestamp, chunkCache>>
    /\ UNCHANGED <<engineVars, policyVars, repeatVars, downloadVars>>

\* loadChunk up to its await: the cached chunk is returned, else the chunk
\* file starts being read
CallLoadChunk(p) ==
    /\ req[p].pc = "chunk"
    /\ LET c == Head(req[p].todo)
       IN  req' = [req EXCEPT ![p] =
                      IF c.id \in DOMAIN chunkCache
                      THEN AfterLoadChunk(req[p], Some(chunkCache[c.id]), chunkIndex)
                      ELSE [req[p] EXCEPT !.pc = "chunkRead", !.got = Null,
                                          !.reads = @ \cup {ChunkRead(c.id)}]]
    /\ UNCHANGED <<started, clears, cacheReadAt, storeVars, now, cacheVars, requestVars>>
    /\ UNCHANGED <<engineVars, policyVars, repeatVars, downloadVars>>

\* loadChunk after its await: the chunk is put in the cache, or null is
\* returned for a file that could not be loaded
ChunkLoaded(p) ==
    /\ req[p].pc = "chunkRead"
    /\ req[p].got # Null
    /\ LET c == Head(req[p].todo)
           ok == req[p].got[1].ok
           r == [req[p] EXCEPT !.failed = IF ok THEN @ ELSE @ \cup {ChunkRead(c.id)}]
       IN  /\ chunkCache' = IF ok
                            THEN [ k \in DOMAIN chunkCache \cup {c.id} |->
                                       IF k = c.id THEN ChunkFile(c.id) ELSE chunkCache[k] ]
                            ELSE chunkCache
           /\ req' = [req EXCEPT ![p] =
                          AfterLoadChunk(r, IF ok THEN Some(ChunkFile(c.id)) ELSE Null,
                                         chunkIndex)]
    /\ UNCHANGED <<started, clears, cacheReadAt, storeVars, now, requestVars>>
    /\ UNCHANGED <<cyclingNodesCache, cacheTimestamp, chunkIndex>>
    /\ UNCHANGED <<engineVars, policyVars, repeatVars, downloadVars>>

\* filterNodesByBounds after await loadLocalNodes(): the data is cached and
\* filtered; a throw lands in the catch of loadNodesFromChunks, which calls
\* filterNodesByBounds once more, and a throw from there reaches the route
LocalNodesLoaded(p) ==
    /\ req[p].pc = "rawRead"
    /\ req[p].got # Null
    /\ LET ok == req[p].got[1].ok
           r == [req[p] EXCEPT !.got = Null,
                               !.failed = IF ok THEN @ ELSE @ \cup {RawRead}]
       IN  /\ cyclingNodesCache' = CacheAfterLoad(ok, RawFile, cyclingNodesCache)
           /\ cacheTimestamp' = CacheAfterLoad(ok, now, cacheTimestamp)
           /\ cacheReadAt' = CacheAfterLoad(ok, req[p].got[1].readAt, cacheReadAt)
           /\ req' = [req EXCEPT ![p] =
                          IF ok
                          THEN [RespondBounds(r, FilterNodes(RawFile.nodes, r.box), chunkIndex)
                                    EXCEPT !.servedReadAt = Some(req[p].got[1].readAt)]
                          ELSE IF r.inCatch
                          THEN [r EXCEPT !.pc = "done", !.response = Some(ServerError)]
                          ELSE CallFilterNodesByBounds([r EXCEPT !.inCatch = TRUE], chunkIndex)]
    /\ UNCHANGED <<started, clears, storeVars, now, chunkIndex, chunkCache, requestVars>>
    /\ UNCHANGED <<engineVars, policyVars, repeatVars, downloadVars>>

\* GET /cycling-nodes after await loadLocalNodes()
AllNodesLoaded(p) ==
    /\ req[p].pc = "allRead"
    /\ req[p].got # Null
    /\ LET ok == req[p].got[1].ok
           r == [req[p] EXCEPT !.got = Null, !.pc = "done",
                               !.failed = IF ok THEN @ ELSE @ \cup {RawRead}]
       IN  /\ cyclingNodesCache' = CacheAfterLoad(ok, RawFile, cyclingNodesCache)
           /\ cacheTimestamp' = CacheAfterLoad(ok, now, cacheTimestamp)
           /\ cacheReadAt' = CacheAfterLoad(ok, req[p].got[1].readAt, cacheReadAt)
           /\ req' = [req EXCEPT ![p] =
                          IF ok
                          THEN [r EXCEPT !.response = Some(AllNodesBody(RawFile)),
                                         !.servedReadAt = Some(req[p].got[1].readAt)]
                          ELSE [r EXCEPT !.response = Some(ServerError)]]
    /\ UNCHANGED <<started, clears, storeVars, now, chunkIndex, chunkCache, requestVars>>
    /\ UNCHANGED <<engineVars, policyVars, repeatVars, downloadVars>>

\* DELETE /cache, between the steps of the other handlers
DeleteCache ==
    /\ started < MaxRequests
    /\ started' = started + 1
    /\ clears' = clears + 1
    /\ cyclingNodesCache' = Null
    /\ cacheTimestamp' = Null
    /\ cacheReadAt' = Null
    /\ UNCHANGED <<req, storeVars, now, chunkIndex, chunkCache, requestVars>>
    /\ UNCHANGED <<engineVars, policyVars, repeatVars, downloadVars>>

\* time passes while requests are under way
Clock ==
    /\ now < (MaxTicks + 1) * TickMs
    /\ now' = now + TickMs
    /\ UNCHANGED <<raceVars, storeVars, cacheVars, requestVars>>
    /\ UNCHANGED <<engineVars, policyVars, repeatVars, downloadVars>>

\* the raw data file is removed or overwritten with something unparsable
FileLost ==
    /\ rawOk
    /\ rawOk' = FALSE
    /\ UNCHANGED <<dataset, indexOk, badChunks>>
    /\ UNCHANGED <<raceVars, now, cacheVars, requestVars>>
    /\ UNCHANGED <<engineVars, policyVars, repeatVars, downloadVars>>

RaceInit ==
    /\ EngineInit
    /\ PolicyIdle
    /\ RepeatIdle
    /\ DownloadIdle
    /\ RaceIdle
    /\ dataset = AllPoints
    /\ rawOk = TRUE
    /\ indexOk \in BOOLEAN
    /\ badChunks \in BadChunkSets
    /\ indexOk \/ badChunks = {}
    /\ now = TickMs
    /\ CachesEmpty
    /\ NoRequest

RaceNext ==
    \/ \E p \in Procs : StartAllNodes(p)
    \/ \E p \in Procs : StartBounds(p)
    \/ \E p \in Procs : ReadFile(p)
    \/ \E p \in Procs : IndexLoaded(p)
    \/ \E p \in Procs : CallLoadChunk(p)
    \/ \E p \in Procs : ChunkLoaded(p)
    \/ \E p \in Procs : LocalNodesLoaded(p)
    \/ \E p \in Procs : AllNodesLoaded(p)
    \/ DeleteCache
    \/ Clock
    \/ FileLost

SpecRace == RaceInit /\ [][RaceNext]_vars

\* ================================================================ claims
Finished == pc \in {"return", "done"}
Markers == 1..Len(clusters)
Max(S) == CHOOSE x \in S : \A y \in S : y <= x

\* ------------------------------------------------------------------- C5
\* the table as the claim states it: key, radius in km
ClaimedTable == { <<0, 100>>, <<3, 75>>, <<5, 50>>, <<7, 30>>, <<9, 15>>, <<10, 10>> }
ClaimedRadius(z) ==
    LET k == Max({ e[1] : e \in { t \in ClaimedTable : t[1] <= z } })
    IN  (CHOOSE e \in ClaimedTable : e[1] = k)[2]

\* C5: for every integer zoom with 0 <= zoom < 11 getClusterDistance returns
\* the table value of the largest key <= zoom (0,1,2 -> 100; 3,4 -> 75;
\* 5,6 -> 50; 7,8 -> 30; 9 -> 15; 10 -> 10), and 0 for every zoom >= 11.
C5_RadiusTable ==
    (retDistance # Null /\ ~argZoom.nan /\ argZoom.val >= 0) =>
        /\ argZoom.val < 11 => retDistance[1] = ClaimedRadius(argZoom.val)
        /\ argZoom.val \in {0, 1, 2} => retDistance[1] = 100
        /\ argZoom.val \in {3, 4} => retDistance[1] = 75
        /\ argZoom.val \in {5, 6} => retDistance[1] = 50
        /\ argZoom.val \in {7, 8} => retDistance[1] = 30
        /\ argZoom.val = 9 => retDistance[1] = 15
        /\ argZoom.val = 10 => retDistance[1] = 10
        /\ argZoom.val >= 11 => retDistance[1] = 0

\* getClusterDistance(8) has returned 30, the value of key 7
C5_Witness == argZoom = Num(8) /\ retDistance = Some(30)

\* ------------------------------------------------------------------- C6
\* C6: for all integer zooms 0 <= z1 <= z2, getClusterDistance(z1) >=
\* getClusterDistance(z2): the radius returned for a zoom is at least the
\* radius of every larger zoom, and it is exactly 0 from zoom 11 on.
C6_MonotonicRadius ==
    (retDistance # Null /\ ~argZoom.nan /\ argZoom.val >= 0) =>
        /\ \A z2 \in argZoom.val..(MaxZoom + 1) :
               retDistance[1] >= getClusterDistance(Num(z2))
        /\ \A z1 \in 0..argZoom.val :
               getClusterDistance(Num(z1)) >= retDistance[1]
        /\ argZoom.val >= 11 => retDistance[1] = 0

\* the radius has been computed on the low side of a breakpoint (zoom 4,
\* 75 km) and the next zoom has a strictly smaller radius
C6_Witness ==
    /\ argZoom = Num(4)
    /\ retDistance = Some(75)
    /\ getClusterDistance(Num(5)) < 75

\* ------------------------------------------------------------------- C7
BoxArea(b) == (b.north - b.south) * (b.east - b.west)
\* the zoom the claim gives to an area (square millidegrees)
ClaimedZoom(area) ==
    IF area > 100 * SqUnit THEN 0
    ELSE IF area > 25 * SqUnit THEN 3
    ELSE IF area > 4 * SqUnit THEN 5
    ELSE IF area > SqUnit THEN 7
    ELSE IF area > 250000 THEN 9
    ELSE IF area > 100000 THEN 10
    ELSE 11

\* C7: calculateZoomFromBounds maps the area A = (north-south)*(east-west) to
\* a zoom by strict thresholds (A>100 -> 0, >25 -> 3, >4 -> 5, >1 -> 7,
\* >0.25 -> 9, >0.1 -> 10, else 11); the result is non-increasing in A; the
\* box 50.7,3.2,53.7,7.3 gives 5 and an area of exactly 100 gives 3.
C7_ZoomFromArea ==
    retZoom # Null =>
        /\ retZoom[1] = ClaimedZoom(BoxArea(argBox))
        /\ \A b \in PolicyBoxes :
               BoxArea(b) >= BoxArea(argBox) =>
                   calculateZoomFromBounds(b.south, b.west, b.north, b.east) <= retZoom[1]
        /\ argBox = Box(50700, 3200, 53700, 7300) => retZoom[1] = 5
        /\ BoxArea(argBox) = 100 * SqUnit => retZoom[1] = 3

\* the zoom of a box of exactly 100 square degrees has been computed
C7_Witness ==
    /\ retZoom = Some(3)
    /\ BoxArea(argBox) = 100 * SqUnit

\* ------------------------------------------------------------------- C1
\* the places (marker, position in its member list) that hold input index k
PlacesOf(k) ==
    { mp \in { <<m, q>> : m \in Markers, q \in 1..Len(nodes) } :
        /\ mp[2] <= Len(clusters[mp[1]].nodes)
        /\ clusters[mp[1]].nodes[mp[2]] = k }

\* C1: when clusterNodes has returned, every input point (identified by its
\* position in the list) is a member of exactly one marker, exactly once.
C1_Partition ==
    Finished => \A k \in 0..(Len(nodes) - 1) : Cardinality(PlacesOf(k)) = 1

\* a list with two points of the same id and a repeated record has been
\* grouped into fewer markers than points
C1_Witness ==
    /\ Finished
    /\ Len(nodes) = 3
    /\ Len(clusters) = 2
    /\ \E a, b \in 1..3 : a # b /\ nodes[a].id = nodes[b].id

\* ------------------------------------------------------------------- C2
\* the inner loop is about to decide on the unconsumed candidate j
Deciding == pc = "inner" /\ j < Len(nodes) /\ j \notin used
SeedDistance == getDistance(At(nodes, i).lat, At(nodes, i).lng,
                            At(nodes, j).lat, At(nodes, j).lng)
\* the centroid is rounded down to a millidegree for the distance
CentroidDistance == getDistance(clusterLat.num \div clusterLat.den,
                                clusterLng.num \div clusterLng.den,
                                At(nodes, j).lat, At(nodes, j).lng)

\* C2 as stated: the candidate is added iff its distance from the group's
\* current centroid is at most the radius.
C2_CentroidRule ==
    [][Deciding => ((j \in used') <=> (CentroidDistance <= clusterDistance * 1000))]_vars

\* C2 as amended: the candidate is added iff its distance from the seed
\* point (centerNode, the group's first member) is at most the radius; the
\* centroid, although recomputed after each addition, plays no part.
C2_SeedRule ==
    [][Deciding =>
         /\ (j \in used') <=> (SeedDistance <= clusterDistance * 1000)
         /\ (j \in used') <=> (clusterNodes' = Append(clusterNodes, j))
         /\ (j \notin used') => (clusterNodes' = clusterNodes)]_vars

\* a group whose centroid has moved away from its seed decides on a
\* candidate that lies outside the radius of the seed but inside the
\* radius of the centroid
C2_Witness ==
    /\ Deciding
    /\ Len(clusterNodes) >= 2
    /\ SeedDistance > clusterDistance * 1000
    /\ CentroidDistance <= clusterDistance * 1000

\* ------------------------------------------------------------------- C3
\* C3: for every cluster marker returned, count * lat is the sum of the lat
\* of its final members, and likewise for lng.
C3_Centroid ==
    Finished =>
        \A m \in Markers :
            clusters[m].isCluster =>
                /\ clusters[m].lat.den > 0 /\ clusters[m].lng.den > 0
                /\ clusters[m].count * clusters[m].lat.num
                       = clusters[m].lat.den * SumLat(nodes, clusters[m].nodes)
                /\ clusters[m].count * clusters[m].lng.num
                       = clusters[m].lng.den * SumLng(nodes, clusters[m].nodes)

\* a cluster of three points that differ in lat and in lng has been returned
C3_Witness ==
    /\ Finished
    /\ \E m \in Markers :
           /\ clusters[m].isCluster
           /\ clusters[m].count = 3
           /\ \E a, b \in 1..3 :
                  /\ At(nodes, clusters[m].nodes[a]).lat # At(nodes, clusters[m].nodes[b]).lat
                  /\ At(nodes, clusters[m].nodes[a]).lng # At(nodes, clusters[m].nodes[b]).lng

\* ------------------------------------------------------------------- C4
\* C4: for every zoom >= 11 clusterNodes returns exactly one marker per input
\* point, in input order, each a Singleton (count 1, not a cluster) with
\* that point's own lat/lng.
C4_DetailThreshold ==
    (Finished /\ Geq(zoom, Num(11))) =>
        /\ Len(clusters) = Len(nodes)
        /\ \A k \in 1..Len(nodes) :
               /\ clusters[k].nodes = <<k - 1>>
               /\ clusters[k].count = 1
               /\ clusters[k].isCluster = FALSE
               /\ clusters[k].type = "node"
               /\ clusters[k].lat = Rat(nodes[k].lat, 1)
               /\ clusters[k].lng = Rat(nodes[k].lng, 1)
               /\ clusters[k].id = nodes[k].id

\* at zoom 11 a list with two points 130 m apart has been returned
C4_Witness ==
    /\ Finished
    /\ zoom = Num(11)
    /\ Len(nodes) >= 2
    /\ nodes[1] = N1 /\ nodes[2] = N2

\* ------------------------------------------------------------------- C8
\* query strings that carry an integer zoom, with that integer
IntegerQueries ==
    { <<Some(<<"0">>), 0>>, <<Some(<<"5">>), 5>>, <<Some(<<"1", "0">>), 10>>,
      <<Some(<<"1", "2">>), 12>>, <<Some(<<"-", "1">>), -1>> }

\* C8: a request with an explicit integer zoom (0 included) is grouped at
\* exactly that zoom, whatever its bounding box; only a request without a
\* zoom takes the zoom calculateZoomFromBounds gives its box.
C8_ZoomResolution ==
    /\ \A e \in IntegerQueries :
           query = e[1] =>
               /\ pc # "idle" => explicitZoom = Some(Num(e[2]))
               /\ pc \notin {"idle", "loading"} =>
                      /\ zoom = Num(e[2])
                      /\ clusterDistance = getClusterDistance(Num(e[2]))
    /\ (pc \notin {"idle", "loading"}) =>
           ((zoom = Num(calculateZoomFromBounds(bounds.south, bounds.west,
                                                bounds.north, bounds.east))
             /\ explicitZoom = Null)
            \/ (explicitZoom # Null /\ zoom = explicitZoom[1]
                /\ query # Null /\ query[1] # <<>>))
    /\ (pc \notin {"idle", "loading"} /\ query \in {Null, Some(<<>>)}) =>
           zoom = Num(calculateZoomFromBounds(bounds.south, bounds.west,
                                              bounds.north, bounds.east))

\* a request with zoom=0 and a box that would give another zoom has been
\* grouped at zoom 0
C8_Witness ==
    /\ Finished
    /\ query = Some(<<"0">>)
    /\ zoom = Num(0)
    /\ calculateZoomFromBounds(bounds.south, bounds.west, bounds.north, bounds.east) # 0
    /\ Len(nodes) >= 2

\* ------------------------------------------------------------------- C9
\* C9: markers are listed by increasing input index of their seed (their
\* first member), and the members of a marker by increasing input index.
C9_OutputOrder ==
    /\ \A m1, m2 \in Markers :
           m1 < m2 => clusters[m1].nodes[1] < clusters[m2].nodes[1]
    /\ \A m \in Markers :
           \A a, b \in 1..Len(clusters[m].nodes) :
               a < b => clusters[m].nodes[a] < clusters[m].nodes[b]

\* a cluster of the first and the third point is listed before the
\* singleton of the second point
C9_Witness ==
    /\ Finished
    /\ Len(clusters) = 2
    /\ clusters[1].nodes = <<0, 2>>
    /\ clusters[2].nodes = <<1>>

\* ------------------------------------------------------------------ C10
\* C10: every marker has count = size of its member list >= 1; it is a
\* Singleton (type node, isCluster false, the point's own coordinates) iff
\* it has exactly one member and a Group (type cluster, isCluster true) iff
\* it has two or more.
C10_VariantRule ==
    \A m \in Markers :
        LET c == clusters[m] IN
        /\ c.count = Len(c.nodes)
        /\ Len(c.nodes) >= 1
        /\ (Len(c.nodes) = 1) <=> (c.type = "node" /\ c.isCluster = FALSE)
        /\ (Len(c.nodes) >= 2) <=> (c.type = "cluster" /\ c.isCluster = TRUE)
        /\ (Len(c.nodes) = 1) =>
               /\ c.lat = Rat(At(nodes, c.nodes[1]).lat, 1)
               /\ c.lng = Rat(At(nodes, c.nodes[1]).lng, 1)

\* a result holds a Singleton and a Group side by side
C10_Witness ==
    /\ Finished
    /\ \E m1, m2 \in Markers :
           /\ clusters[m1].type = "node" /\ clusters[m1].count = 1
           /\ clusters[m2].type = "cluster" /\ clusters[m2].count >= 2

\* C11: the figures reported by clusterNodesForBounds agree with its input and
\* its markers: originalNodeCount is the input's length and the sum of the
\* markers' count, clusterCount is the number of Group markers and
\* individualNodeCount the number of Singleton markers (together the number of
\* markers), zoom is the resolved zoom and clusterDistance is
\* getClusterDistance of it.
RECURSIVE SumCounts(_)
SumCounts(cs) == IF cs = <<>> THEN 0 ELSE Head(cs).count + SumCounts(Tail(cs))
C11_Figures ==
    pc = "done" =>
        LET r == result[1]
            groups == { m \in 1..Len(r.clusters) : r.clusters[m].type = "cluster" }
            singles == { m \in 1..Len(r.clusters) : r.clusters[m].type = "node" }
        IN  /\ r.originalNodeCount = Len(nodes)
            /\ r.originalNodeCount = SumCounts(r.clusters)
            /\ r.clusterCount = Cardinality(groups)
            /\ r.individualNodeCount = Cardinality(singles)
            /\ r.clusterCount + r.individualNodeCount = Len(r.clusters)
            /\ r.zoom = zoom
            /\ \A e \in IntegerQueries : query = e[1] => r.zoom = Num(e[2])
            /\ query \in {Null, Some(<<>>)} =>
                   r.zoom = Num(calculateZoomFromBounds(bounds.south, bounds.west,
                                                        bounds.north, bounds.east))
            /\ r.clusterDistance = getClusterDistance(r.zoom)
C11_Witness ==
    /\ pc = "done"
    /\ result[1].clusterCount >= 1
    /\ result[1].individualNodeCount >= 1
    /\ result[1].originalNodeCount = 3

ToSet(seq) == { seq[k] : k \in 1..Len(seq) }
Answered(r) == qpc = "done" /\ route = r /\ response # Null /\ response[1].status = 200
\* the known points of the box b, both borders included
KnownInside(b) ==
    { n \in ToSet(dataset) :
          /\ FLeq(b.south, FNum(n.lat)) /\ FLeq(FNum(n.lat), b.north)
          /\ FLeq(b.west, FNum(n.lng)) /\ FLeq(FNum(n.lng), b.east) }

\* C13: the points a bounds query returns are exactly the known points with
\* south <= lat <= north and west <= lng <= east: none outside the box is
\* returned and none inside it is missing.
C13_BoundsFilter ==
    Answered("bounds") => ToSet(response[1].nodes) = KnownInside(box)

\* a tile of the index overlaps the box b, a common edge or corner included
Overlaps(b, c) ==
    /\ FLeq(FNum(c.bounds[2]), b.east) /\ FLeq(b.west, FNum(c.bounds[4]))
    /\ FLeq(FNum(c.bounds[1]), b.north) /\ FLeq(b.south, FNum(c.bounds[3]))
TileHolds(c, n) ==
    /\ c.bounds[1] <= n.lat /\ n.lat <= c.bounds[3]
    /\ c.bounds[2] <= n.lng /\ n.lng <= c.bounds[4]

\* C14: when the index is there, the tiles picked for a box are exactly the
\* tiles whose bounds overlap it (touching edges count), in index order; so
\* every tile whose bounds hold a known point of the box is among them.
C14_TileSelection ==
    [][ (qpc = "index" /\ chunkIndex' # Null /\ qpc' # "index") =>
            /\ ToSet(todo') = { c \in ToSet(generateChunks) : Overlaps(box, c) }
            /\ \A a, b \in 1..Len(todo') : a < b => todo'[a].id < todo'[b].id
            /\ \A c \in ToSet(generateChunks) :
                   (\E n \in KnownInside(box) : TileHolds(c, n)) => c \in ToSet(todo')
      ]_vars
\* the box whose north side lies on the edge of tiles 28 and 36 has both
\* picked, with the point on that edge known
C14_Witness ==
    /\ qpc = "chunks"
    /\ box.north = FNum(52200)
    /\ \E a, b \in 1..Len(todo) :
           /\ todo[a].id = 28 /\ todo[b].id = 36
           /\ todo[b].bounds[1] = 52200
    /\ N6 \in KnownInside(box)

\* the bounds request was answered by the tiled path, every tile it needed loaded
TiledAnswer ==
    /\ Answered("bounds")
    /\ response[1].source = "chunks"
    /\ \A f \in failed : f.file # "chunk"
\* what the full scan filterNodesByBounds returns for the box from the same dataset
FullScan(b) == { n \in ToSet(dataset) : InBounds(n, b) }

\* C15: for the same dataset, with the tile subsets the grid makes of it, and
\* every box, the tiled path returns the same set of points as the full scan.
C15_TileEquivalence ==
    TiledAnswer => ToSet(response[1].nodes) = FullScan(box)
\* a tiled answer gathered from two tiles, with a point on the box's border
C15_Witness ==
    /\ TiledAnswer
    /\ N6 \in ToSet(response[1].nodes)
    /\ N1 \in ToSet(response[1].nodes)
    /\ box.north = FNum(52200)
    /\ Cardinality({ f \in reads : f.file = "chunk" }) >= 2

\* C16: the answer gathered from the tiles never holds the same point (same
\* osmId) twice, a point on the common edge of two tiles included, because
\* every point is in the subset of exactly one tile.
C16_NoDuplicates ==
    (Answered("bounds") /\ response[1].source = "chunks") =>
        \A a, b \in 1..Len(response[1].nodes) :
            a # b => response[1].nodes[a].osmId # response[1].nodes[b].osmId

\* what the tiled path gathers for the box b from the tiles the grid makes
TiledPoints(b) ==
    { n \in ToSet(dataset) :
          /\ InBounds(n, b)
          /\ \E c \in ToSet(generateChunks) : Overlaps(b, c) /\ TileHolds(c, n) }

\* C17: without a tile index a bounds query does not fail for that reason: it
\* is answered from the full dataset with the same inclusive test, and gets
\* the points the tiled path would give.
C17_MissingIndex ==
    (qpc = "done" /\ route = "bounds" /\ ~indexOk /\ ~SomeNaN(box)) =>
        /\ chunkIndex = Null
        /\ IndexRead \in failed
        /\ rawOk <=> response[1].status = 200
        /\ rawOk =>
               /\ response[1].nodes = SelectSeq(dataset, LAMBDA n : n \in KnownInside(box))
               /\ ToSet(response[1].nodes) = TiledPoints(box)
C17_Witness ==
    /\ Answered("bounds")
    /\ ~indexOk
    /\ response[1].source = "local"
    /\ box.north = FNum(52200)
    /\ ToSet(response[1].nodes) = {N6, N1}

\* a request of the bounds or the clustered endpoint with a side that does
\* not parse as a finite number
BadSide ==
    /\ route \in {"bounds", "clustered"}
    /\ \E k \in 1..4 : parseFloat(params[k]).kind # "num"

\* C18: on the bounds and the clustered endpoint a request with a side that
\* does not parse as a finite number is rejected with an error response
\* before anything is loaded or grouped: no file is read for it.
C18_BadInput ==
    BadSide =>
        /\ qpc = "done"
        /\ response = Some(BadRequest)
        /\ reads = {}
        /\ failed = {}
        /\ pc = "idle"
\* a side that is no number at all is rejected at once, on either endpoint,
\* with the caches already filled
C18_Witness ==
    /\ BadSide
    /\ route = "clustered"
    /\ isNaN(box.west)
    /\ response = Some(BadRequest)
    /\ reads = {}
    /\ chunkIndex # Null
    /\ cyclingNodesCache # Null

\* a part of the data the request needed could not be loaded: the full
\* dataset file, or the file of a tile that overlaps the box
NeededPartFailed == \E f \in failed : f.file \in {"raw", "chunk"}

\* C19: a query for which a needed part of the data could not be loaded ends
\* in an error response, never in a successful one that lacks that part's
\* points.
C19_FailureReported ==
    (qpc = "done" /\ NeededPartFailed) => response[1].status = 500
\* the full dataset file failing is reported as an error
C19_Witness ==
    /\ qpc = "done"
    /\ route = "bounds"
    /\ RawRead \in failed
    /\ response = Some(ServerError)

\* a cached copy of the full dataset exists and is younger than 24 hours
Fresh ==
    /\ cyclingNodesCache # Null
    /\ cacheTimestamp # Null
    /\ now - cacheTimestamp[1] < 24 * 3600 * 1000
\* a step in which a request turns to the full dataset
DatasetStep ==
    \/ AllNodesRoute
    \/ AllLoad
    \/ ScanLoad
    \/ (LoadChunkIndex /\ chunkIndex' = Null)

\* C20: a query on the full dataset is answered from the cached copy exactly
\* when there is one younger than the 24 hours' lifetime; otherwise it loads
\* from disk, and a load that succeeds replaces the cached data and its
\* timestamp; no answer is made from a copy as old as the lifetime.
C20_ReadThrough ==
    [][ /\ AllNodesRoute =>
               IF Fresh
               THEN /\ qpc' = "done"
                    /\ response' = Some(AllNodesBody(cyclingNodesCache[1]))
                    /\ reads' = {}
                    /\ UNCHANGED cacheVars
               ELSE qpc' = "allLoad" /\ RawRead \in reads'
        /\ (LoadChunkIndex /\ chunkIndex' = Null) =>
               IF Fresh
               THEN /\ RawRead \notin reads'
                    /\ qpc' \in {"done", "cluster"}
                    /\ UNCHANGED <<cyclingNodesCache, cacheTimestamp>>
               ELSE qpc' = "scanLoad" /\ RawRead \in reads'
        /\ ((AllLoad \/ ScanLoad) /\ rawOk) =>
               /\ cyclingNodesCache' = Some([nodes |-> dataset, count |-> Len(dataset)])
               /\ cacheTimestamp' = Some(now)
        /\ (DatasetStep /\ qpc' \in {"done", "cluster"}
                /\ (qpc' = "done" => response'[1].status = 200)) =>
               /\ cyclingNodesCache' # Null
               /\ cacheTimestamp' # Null
               /\ now - cacheTimestamp'[1] < 24 * 3600 * 1000
               /\ route' = "all" => response'[1].nodes = cyclingNodesCache'[1].nodes
               /\ route' = "bounds" =>
                      ToSet(response'[1].nodes) \subseteq ToSet(cyclingNodesCache'[1].nodes)
               /\ route' = "clustered" =>
                      ToSet(nodes') \subseteq ToSet(cyclingNodesCache'[1].nodes)
      ]_vars
\* a request finds a cached copy whose age has reached the lifetime and
\* goes to disk for the dataset
C20_Witness ==
    /\ qpc = "allLoad"
    /\ cyclingNodesCache # Null
    /\ cacheTimestamp # Null
    /\ now - cacheTimestamp[1] = CACHE_DURATION

\* C21: once DELETE /cache has completed nothing cached before is served any
\* more: the full dataset, every tile's list and the tile index are gone from
\* memory, so the next query that needs them reads them from disk.
C21_ClearForgetsAll ==
    (qpc = "done" /\ route = "clear") =>
        /\ cyclingNodesCache = Null
        /\ cacheTimestamp = Null
        /\ chunkIndex = Null
        /\ DOMAIN chunkCache = {}
\* a clear has completed with the index and a tile's list loaded earlier
C21_Witness ==
    /\ qpc = "done"
    /\ route = "clear"
    /\ cyclingNodesCache = Null
    /\ chunkIndex # Null
    /\ 28 \in DOMAIN chunkCache

C24_NoMatchIsSuccess ==
    /\ (/\ qpc = "done" /\ route \in {"bounds", "clustered"}
        /\ ~BadSide /\ KnownInside(box) = {} /\ RawRead \notin failed) =>
           /\ response[1].status = 200
           /\ response[1].count = 0
           /\ route = "bounds" => response[1].nodes = <<>>
           /\ route = "clustered" =>
                  /\ response[1].clusters = <<>>
                  /\ response[1].originalNodeCount = 0
                  /\ response[1].clusterCount = 0
                  /\ response[1].individualNodeCount = 0
    /\ (pc = "done" /\ nodes = <<>>) =>
           /\ result[1].clusters = <<>>
           /\ result[1].originalNodeCount = 0
           /\ result[1].clusterCount = 0
           /\ result[1].individualNodeCount = 0
\* the clustered request for the box 53, 10, 54, 11 east of every tile, with
\* both points on file and a grouping radius above zero, was answered empty
C24_Witness ==
    /\ Answered("clustered")
    /\ box.south = FNum(53000) /\ box.west = FNum(10000)
    /\ dataset = AllPoints
    /\ chunkIndex # Null /\ reads = {IndexRead}
    /\ response[1].clusterDistance > 0
    /\ response[1].count = 0

\* the requests of the run that went out for the chunk with index c
RequestsFor(c) == { k \in 1..Len(sent) : sent[k].chunk = At(DownloadChunks, c).id }

\* C25: for any one chunk the downloader posts at most 3 requests, the first
\* attempt and the retries together, before it gives the chunk up.
C25_AtMostThreeAttempts ==
    \A c \in 0..(Len(DownloadChunks) - 1) : Cardinality(RequestsFor(c)) <= 3
\* scripts/download-all-nodes.js has given a chunk up after its retries
C25_Witness ==
    /\ script = "js" /\ dpc = "gaveUp"
    /\ retryCount = MAX_RETRIES
    /\ Cardinality(RequestsFor(chunkAt)) = 1 + MAX_RETRIES

\* C26: between two requests that follow one another the downloader has
\* slept at least the request delay of 3 seconds, however the earlier one
\* ended (answered, retried, or chunk given up).
C26_RequestsSpaced ==
    \A k \in 1..(Len(sent) - 1) : sent[k + 1].at - sent[k].at >= 3000
\* src/scripts/download-all-nodes.ts has posted the first request of a chunk
\* right after it gave the chunk before it up
C26_Witness ==
    /\ script = "ts" /\ chunkAt = 1 /\ downloaded = <<>>
    /\ Len(sent) = MAX_RETRIES + 1
    /\ sent[MAX_RETRIES + 1].at = sent[MAX_RETRIES].at

\* C28: the points are read-only while requests are served. Whatever bounds
\* and clustered queries have run, the cached dataset and every cached tile
\* list are what was loaded from their files; no step of the grouping
\* changes the list it was given; and the markers of a request are built by
\* that request: the grouping starts from no marker, or with radius 0 from
\* the single-point markers of its own list.
C28_PointsReadOnly ==
    /\ [](/\ cyclingNodesCache # Null => cyclingNodesCache[1] = RawFile
          /\ \A k \in DOMAIN chunkCache : chunkCache[k] = ChunkFile(k))
    /\ [][/\ qpc = "cluster" /\ qpc' = "cluster" => nodes' = nodes
          /\ qpc # "cluster" /\ qpc' = "cluster" =>
                 clusters' = IF clusterDistance' = 0 THEN Singletons(nodes') ELSE <<>>]_vars
\* a clustered query was answered from cached tile lists alone, and its
\* markers leave out a point that the list of tile 28 holds
C28_Witness ==
    /\ Answered("clustered")
    /\ reads = {}
    /\ 28 \in DOMAIN chunkCache
    /\ N1 \in ToSet(chunkCache[28].nodes)
    /\ response[1].originalNodeCount > 0
    /\ \A m \in 1..Len(response[1].clusters) :
           N1 \notin ToSet(response[1].clusters[m].nodes)

\* what the request r is answered when it is the only request and the files
\* are as they were at the start: the whole raw file, the points of the box
\* from the tiles that can be loaded, or, without an index, from the raw file
AloneResponse(r) ==
    IF r.route = "all" THEN AllNodesBody(RawFile)
    ELSE IF ~indexOk THEN BoundsBody(FilterNodes(RawFile.nodes, r.box), Null)
    ELSE LET chunks == findIntersectingChunks(Some(IndexFile), r.box)
             upTo[k \in 0..Len(chunks)] ==
                 IF k = 0 THEN <<>>
                 ELSE upTo[k - 1] \o
                      (IF chunks[k].id \in badChunks THEN <<>>
                       ELSE FilterNodes(ChunkFile(chunks[k].id).nodes, r.box))
         IN  BoundsBody(upTo[Len(chunks)], Some(IndexFile))

\* C22: with the backing files fixed, requests that run side by side and
\* find a cache entry absent or expired may each load it; every one of them
\* is answered what it is answered when it runs alone, and when all have
\* finished every entry that one of them loaded holds its file's content.
C22_BenignRace ==
    /\ \A p \in Procs :
           (req[p].pc = "done" /\ rawOk) => req[p].response = Some(AloneResponse(req[p]))
    /\ (\A p \in Procs : req[p].pc \in {"idle", "done"}) =>
           /\ cyclingNodesCache # Null => cyclingNodesCache[1] = RawFile
           /\ chunkIndex # Null => chunkIndex[1] = IndexFile
           /\ \A k \in DOMAIN chunkCache : chunkCache[k] = ChunkFile(k)
           /\ \A p \in Procs :
                  /\ (RawRead \in req[p].reads \ req[p].failed /\ req[p].startedAt = clears)
                         => cyclingNodesCache = Some(RawFile)
                  /\ IndexRead \in req[p].reads \ req[p].failed => chunkIndex = Some(IndexFile)
                  /\ \A k \in 1..(GRID_SIZE * GRID_SIZE) :
                         ChunkRead(k) \in req[p].reads \ req[p].failed
                             => (k \in DOMAIN chunkCache /\ chunkCache[k] = ChunkFile(k))
\* two bounds requests have both read the raw file, the second one starting
\* while the first was waiting for it, and both were answered alike
C22_Witness ==
    /\ \A p \in Procs :
           /\ req[p].pc = "done" /\ req[p].route = "bounds"
           /\ RawRead \in req[p].reads \ req[p].failed
           /\ req[p].response[1].count > 0
    /\ req[1].response = req[2].response
    /\ cyclingNodesCache = Some(RawFile)
    /\ started = 2

\* C29: a load that fails leaves the cache as it was. In the step in which
\* the read of the raw file, of a tile file or of the index comes back
\* failed, the cache variable of that file keeps its value (a copy that has
\* expired included), and what is cached is at all times the whole content
\* of a file, never a part of it and never an empty stand-in.
C29_FailedLoadKeepsCache ==
    /\ [](/\ cyclingNodesCache # Null => cyclingNodesCache[1] = RawFile
          /\ chunkIndex # Null => chunkIndex[1] = IndexFile
          /\ \A k \in DOMAIN chunkCache : chunkCache[k] = ChunkFile(k))
    /\ [][\A p \in Procs :
              LET newly == req'[p].failed \ req[p].failed
              IN  /\ RawRead \in newly =>
                         /\ cyclingNodesCache' = cyclingNodesCache
                         /\ cacheTimestamp' = cacheTimestamp
                  /\ IndexRead \in newly => chunkIndex' = chunkIndex
                  /\ (\E f \in newly : f.file = "chunk") => chunkCache' = chunkCache]_vars
\* the reload of an expired copy has failed and the expired copy is still there
C29_Witness ==
    /\ \E p \in Procs :
           /\ req[p].pc = "done" /\ RawRead \in req[p].failed
           /\ req[p].response = Some(ServerError)
    /\ cyclingNodesCache = Some(RawFile)
    /\ ~CacheValid

\* C30: what a DELETE /cache finds in flight does not come back after it.
\* A dataset read before the latest clear is not in the cache, and no
\* request that started after a clear is served a dataset read before it.
C30_ClearWins ==
    /\ cyclingNodesCache # Null => cacheReadAt = Some(clears)
    /\ \A p \in Procs :
           (req[p].pc = "done" /\ req[p].servedReadAt # Null)
               => req[p].servedReadAt[1] >= req[p].startedAt
\* a request that started after the clear was served the dataset that a
\* load had read before the clear and installed after it
C30_Witness ==
    \E p \in Procs :
        /\ req[p].pc = "done" /\ req[p].servedReadAt # Null
        /\ req[p].startedAt = 1
        /\ req[p].servedReadAt = Some(0)
        /\ req[p].reads = {}

\* C27: for every zoom below all keys of the table (any zoom < 0)
\* getClusterDistance returns the fallback radius of 50 km.
C27_FallbackRadius ==
    (retDistance # Null /\ ~argZoom.nan /\ argZoom.val < 0) => retDistance[1] = 50
C27_Witness ==
    /\ retDistance = Some(50)
    /\ argZoom = Num(-3)

====
